---------------------------- MODULE Spec2Model ----------------------------
(***************************************************************************)
(* Court-assignment bot (devdariorozo/bot-asignacion-juzgados).            *)
(*                                                                         *)
(* The model covers the quota governor and run state (bot_control.py), the *)
(* two metered calls (utils/google_api.py), the city-name resolver         *)
(* (utils/city_variants.py), the court-coordinate synchronizer             *)
(* (core/geocode_courts.py), the claim assignment engine                   *)
(* (core/assign_courts.py) and the run entry points (tasks.py, main.py).   *)
(*                                                                         *)
(* Tables are sequences of rows in insertion order.  Text columns whose    *)
(* spelling matters (cities) are sequences of one-character strings; the   *)
(* other text columns are TLA+ strings.  SQL NULL / Python None is NULL    *)
(* for text, NoCity for a city and NoneNum for a number.                   *)
(***************************************************************************)
EXTENDS Integers, Sequences, FiniteSets, TLC

VARIABLES
    state,                \* bot_state.json: run state and quota counters
    api_limits,           \* bot_config row 'api_limits', as read when the module is loaded
    now_month,            \* the calendar month datetime.now() reports
    city_variants,        \* bot_config row 'city_variants' (groups of spellings)
    data_courts,          \* [db -> rows of data_courts]
    court_coordinates,    \* [db -> rows of court_coordinates]
    lawsuits,             \* [db -> rows of lawsuits]
    clients,              \* [db -> rows of clients]
    adresses,             \* [db -> rows of adresses joined to v_cities]
    assignments,          \* [db -> rows of lawsuit_court_assignments]
    run,                  \* [process -> position and locals of its run]
    collation,            \* the collation of the databases' text columns
    oracle,               \* the answers the external services give when they answer identically
    obs,                  \* what the last step did: calls made, rows written
    hist                  \* history: requests dispatched, runs started, the last outside event

vars == <<state, api_limits, now_month, city_variants, data_courts, court_coordinates, lawsuits,
          clients, adresses, assignments, run, collation, oracle, obs, hist>>

-----------------------------------------------------------------------------
(* Values *)

NULL == "NULL"
NoCity == <<"NULL">>
NoneNum == -1

\* Python truthiness of an optional string, city or number.
Truthy(s) == s # NULL /\ s # ""
TruthyCity(c) == c # NoCity /\ c # <<>>
TruthyNum(x) == x # NoneNum /\ x # 0

\* Python's `x or ''`.
OrEmpty(s) == IF Truthy(s) THEN s ELSE ""
OrEmptyCity(c) == IF TruthyCity(c) THEN c ELSE <<>>

Min(a, b) == IF a < b THEN a ELSE b
Abs(x) == IF x < 0 THEN 0 - x ELSE x

\* The positions 1..Len(s) as a set.
Idx(s) == 1..Len(s)

-----------------------------------------------------------------------------
(* City Name Resolver: utils/city_variants.py *)

\* str.upper() on the alphabet of the model.
UpperChar(c) ==
    CASE c = "a" -> "A"
      [] c = "á" -> "Á"
      [] c = "b" -> "B"
      [] c = "c" -> "C"
      [] c = "d" -> "D"
      [] OTHER -> c

\* NFD decomposition with the combining marks dropped.
UnaccentChar(c) ==
    CASE c = "á" -> "a"
      [] c = "Á" -> "A"
      [] OTHER -> c

RECURSIVE Strip(_)
Strip(s) ==
    IF s = <<>> THEN s
    ELSE IF Head(s) = " " THEN Strip(Tail(s))
    ELSE IF s[Len(s)] = " " THEN Strip(SubSeq(s, 1, Len(s) - 1))
    ELSE s

Upper(s) == [i \in Idx(s) |-> UpperChar(s[i])]

_remove_accents(s) == [i \in Idx(s) |-> UnaccentChar(s[i])]

\* None for an empty or blank name, else the stripped, upper-cased, unaccented name.
normalize_city(city) ==
    IF ~TruthyCity(city) THEN NoCity
    ELSE LET t == Upper(Strip(city))
         IN  IF t = <<>> THEN NoCity ELSE _remove_accents(t)

\* The configured groups, each as the set of its normalized names; cfg is the
\* empty list when the configuration row is missing or cannot be read.
_get_city_variant_sets(cfg) ==
    IF cfg = <<>> THEN <<>>
    ELSE [g \in Idx(cfg) |->
            {normalize_city(cfg[g][i]) : i \in Idx(cfg[g])} \ {NoCity}]

\* A faulty match, true as soon as either name belongs to a configured group;
\* WrongCityGuard is validated against it.
cities_match_either(city1, city2, cfg) ==
    IF ~TruthyCity(city1) \/ ~TruthyCity(city2) THEN FALSE
    ELSE LET n1 == normalize_city(city1)
             n2 == normalize_city(city2)
             sets == _get_city_variant_sets(cfg)
         IN  IF n1 = NoCity \/ n2 = NoCity THEN FALSE
             ELSE IF n1 = n2 THEN TRUE
             ELSE \E g \in Idx(sets) : n1 \in sets[g] \/ n2 \in sets[g]

\* A faulty match that compares the normalized spellings and never looks at
\* the configured groups; MatchLaw is validated against it.
cities_match_spelling_only(city1, city2, cfg) ==
    IF ~TruthyCity(city1) \/ ~TruthyCity(city2) THEN FALSE
    ELSE LET n1 == normalize_city(city1)
             n2 == normalize_city(city2)
         IN  IF n1 = NoCity \/ n2 = NoCity THEN FALSE
             ELSE n1 = n2

cities_match(city1, city2, cfg) ==
    IF ~TruthyCity(city1) \/ ~TruthyCity(city2) THEN FALSE
    ELSE LET n1 == normalize_city(city1)
             n2 == normalize_city(city2)
             sets == _get_city_variant_sets(cfg)
         IN  IF n1 = NoCity \/ n2 = NoCity THEN FALSE
             ELSE IF n1 = n2 THEN TRUE
             ELSE \E g \in Idx(sets) : n1 \in sets[g] /\ n2 \in sets[g]

\* The first configured group holding the normalized name, else the name alone;
\* no variant at all for a name that does not normalize.
get_city_search_variants(city, cfg) ==
    IF ~TruthyCity(city) THEN {}
    ELSE LET normalized == normalize_city(city)
             sets == _get_city_variant_sets(cfg)
             hits == {g \in Idx(sets) : normalized \in sets[g]}
         IN  IF normalized = NoCity THEN {}
             ELSE IF hits # {}
                  THEN sets[CHOOSE g \in hits : \A h \in hits : g <= h]
                  ELSE {normalized}

-----------------------------------------------------------------------------
(* Content hashes.  SHA-256 is taken to be injective on the string it digests, *)
(* so a hash is modelled by the fields of that string after formatting.     *)

\* A faulty hash that leaves the tier out of the digested string; HashLaw is
\* validated against it.
calculate_client_hash_without_tier(lawsuit_id, address, neighborhood, city, department,
                                   type_quantity) ==
    <<lawsuit_id, OrEmpty(address), OrEmpty(neighborhood), OrEmptyCity(city),
      OrEmpty(department), "">>

calculate_client_hash(lawsuit_id, address, neighborhood, city, department, type_quantity) ==
    <<lawsuit_id, OrEmpty(address), OrEmpty(neighborhood), OrEmptyCity(city),
      OrEmpty(department), OrEmpty(type_quantity)>>

calculate_court_hash(court_id, address, city) == <<court_id, address, city>>

-----------------------------------------------------------------------------
(* Quota Governor and Execution State: bot_control.py *)

\* The configured ceilings: BotConfig.get_api_limits() at import.
MAX_API_CALLS_PER_DAY == api_limits.daily
MAX_API_CALLS_PER_MONTH == api_limits.monthly

\* The clock is bounded: months 1..MaxMonth.
MaxMonth == 2

\* get_state() when bot_state.json does not exist yet.
InitialState(month) ==
    [status |-> "stopped", last_error |-> NULL,
     api_calls_today |-> 0, api_calls_month |-> 0, current_month |-> month,
     api_quota_exceeded |-> FALSE, is_manual_stopped |-> FALSE]

\* A faulty update that sets the status and forgets the message;
\* StatusAfterRun is validated against it.
update_status_only(st, status, error_message) == [st EXCEPT !.status = status]

update_status(st, status, error_message) ==
    [st EXCEPT !.status = status,
               !.last_error = IF Truthy(error_message) THEN error_message ELSE @]

MonthlyLimitMsg == "Límite mensual de API alcanzado"
DailyLimitMsg == "Límite diario de API alcanzado"

\* A faulty comparison, off by one, against which MonthlyFirst is validated.
MonthlyLimitReachedLate(calls_month) == calls_month > MAX_API_CALLS_PER_MONTH

\* The monthly limit is reached by the counter after its increment.
MonthlyLimitReached(calls_month) == calls_month >= MAX_API_CALLS_PER_MONTH

\* A faulty comparison, off by one, against which DispatchWithinLimits is validated.
DailyLimitReachedLate(calls_today) == calls_today > MAX_API_CALLS_PER_DAY

\* The daily limit is reached by the counter after its increment.
DailyLimitReached(calls_today) == calls_today >= MAX_API_CALLS_PER_DAY

\* A faulty increment whose month rollover resets the daily counter too;
\* RolloverBeforeCount is validated against it.
increment_api_calls_new_day(st, month) ==
    LET rolled == IF st.current_month # month
                  THEN [st EXCEPT !.api_calls_month = 0, !.api_calls_today = 0,
                                  !.current_month = month, !.api_quota_exceeded = FALSE]
                  ELSE st
        counted == [rolled EXCEPT !.api_calls_today = @ + 1, !.api_calls_month = @ + 1]
    IN  IF MonthlyLimitReached(counted.api_calls_month)
        THEN [st |-> [counted EXCEPT !.api_quota_exceeded = TRUE],
              raised |-> MonthlyLimitMsg, warned |-> FALSE]
        ELSE IF DailyLimitReached(counted.api_calls_today)
        THEN [st |-> [counted EXCEPT !.api_quota_exceeded = TRUE],
              raised |-> DailyLimitMsg, warned |-> FALSE]
        ELSE [st |-> counted, raised |-> NULL,
              warned |-> (10 * counted.api_calls_month >= 8 * MAX_API_CALLS_PER_MONTH)]

\* increment_api_calls on the state read from the file: the state it saves, the
\* exception it raises (NULL when it returns) and whether it logged the 80% warning.
increment_api_calls(st, month) ==
    LET rolled == IF st.current_month # month
                  THEN [st EXCEPT !.api_calls_month = 0, !.current_month = month,
                                  !.api_quota_exceeded = FALSE]
                  ELSE st
        counted == [rolled EXCEPT !.api_calls_today = @ + 1, !.api_calls_month = @ + 1]
    IN  IF MonthlyLimitReached(counted.api_calls_month)
        THEN [st |-> [counted EXCEPT !.api_quota_exceeded = TRUE],
              raised |-> MonthlyLimitMsg, warned |-> FALSE]
        ELSE IF DailyLimitReached(counted.api_calls_today)
        THEN [st |-> [counted EXCEPT !.api_quota_exceeded = TRUE],
              raised |-> DailyLimitMsg, warned |-> FALSE]
        ELSE [st |-> counted, raised |-> NULL,
              warned |-> (10 * counted.api_calls_month >= 8 * MAX_API_CALLS_PER_MONTH)]

NoCreditsMsg == "Se agotaron los créditos de Google Maps API"

mark_no_credits(st) ==
    [st EXCEPT !.status = "no_api_credits", !.api_quota_exceeded = TRUE,
               !.last_error = NoCreditsMsg]

manual_stop(st) == [st EXCEPT !.status = "stopped", !.is_manual_stopped = TRUE]

\* A faulty start that also begins a new day of counting; ManualStartFrame is
\* validated against it.
manual_start_new_day(st) ==
    [st EXCEPT !.status = "stopped", !.is_manual_stopped = FALSE,
               !.api_quota_exceeded = FALSE, !.api_calls_today = 0]

manual_start(st) ==
    [st EXCEPT !.status = "stopped", !.is_manual_stopped = FALSE,
               !.api_quota_exceeded = FALSE]

\* A faulty check that only looks at the manual stop; CanRunFirst is
\* validated against it.
can_run_unless_stopped(st) ==
    IF st.is_manual_stopped THEN <<FALSE, "Bot detenido manualmente">>
    ELSE <<TRUE, "OK">>

\* A faulty check that also refuses while the status says that a run is in
\* progress or has failed; GateOnFlagsOnly is validated against it.
can_run_when_stopped(st) ==
    IF st.is_manual_stopped THEN <<FALSE, "Bot detenido manualmente">>
    ELSE IF st.api_quota_exceeded THEN <<FALSE, "Sin créditos de Google Maps API">>
    ELSE IF st.status # "stopped" THEN <<FALSE, "Bot en ejecución">>
    ELSE <<TRUE, "OK">>

\* <<allowed, reason>>
can_run(st) ==
    IF st.is_manual_stopped THEN <<FALSE, "Bot detenido manualmente">>
    ELSE IF st.api_quota_exceeded THEN <<FALSE, "Sin créditos de Google Maps API">>
    ELSE <<TRUE, "OK">>

\* A faulty reset that begins a new month of counting as well;
\* ResetDailyFrame is validated against it.
reset_both_counters(st) ==
    [st |-> [st EXCEPT !.api_calls_today = 0, !.api_calls_month = 0,
                       !.api_quota_exceeded = FALSE],
     old_count |-> st.api_calls_today]

\* The state it saves and the count it returns.
reset_daily_counter(st) ==
    [st |-> [st EXCEPT !.api_calls_today = 0, !.api_quota_exceeded = FALSE],
     old_count |-> st.api_calls_today]

-----------------------------------------------------------------------------
(* The metered external calls: utils/google_api.py *)

\* The response's first component that is a locality or a second-level
\* administrative area gives the city; None when there is none.
RECURSIVE FoundCity(_)
FoundCity(components) ==
    IF components = <<>> THEN NoCity
    ELSE IF "locality" \in Head(components).types THEN Head(components).long_name
    ELSE IF "administrative_area_level_2" \in Head(components).types
         THEN Head(components).long_name
    ELSE FoundCity(Tail(components))

\* A call that the governor refused: nothing was sent.
Refused(inc) ==
    [st |-> inc.st, raised |-> inc.raised, dispatched |-> FALSE,
     after_today |-> inc.st.api_calls_today, after_month |-> inc.st.api_calls_month]

\* A call that the governor let through: the request was sent.
Sent(inc) ==
    [st |-> inc.st, raised |-> NULL, dispatched |-> TRUE,
     after_today |-> inc.st.api_calls_today, after_month |-> inc.st.api_calls_month]

\* A faulty wrapper that takes the governor's call inside its try block, so that
\* a refusal comes back as (None, None, None); GovernorFirst is validated against it.
geocode_swallowing_refusal(st, month, resp) ==
    LET inc == increment_api_calls(st, month)
    IN  IF inc.raised # NULL
        THEN [call |-> [Refused(inc) EXCEPT !.raised = NULL],
              lat |-> NoneNum, lng |-> NoneNum, found_city |-> NoCity]
        ELSE IF resp.status = "OK"
        THEN [call |-> Sent(inc), lat |-> resp.lat, lng |-> resp.lng,
              found_city |-> FoundCity(resp.components)]
        ELSE [call |-> Sent(inc), lat |-> NoneNum, lng |-> NoneNum, found_city |-> NoCity]

\* geocode_address_with_logging: the governor first, outside the try block; then
\* the request, whose every failure (error status, timeout, exception) gives
\* (None, None, None).  resp is what the service does with the request.
geocode_address_with_logging(st, month, resp) ==
    LET inc == increment_api_calls(st, month)
    IN  IF inc.raised # NULL
        THEN [call |-> Refused(inc), lat |-> NoneNum, lng |-> NoneNum, found_city |-> NoCity]
        ELSE IF resp.status = "OK"
        THEN [call |-> Sent(inc), lat |-> resp.lat, lng |-> resp.lng,
              found_city |-> FoundCity(resp.components)]
        ELSE [call |-> Sent(inc), lat |-> NoneNum, lng |-> NoneNum, found_city |-> NoCity]

\* sorted(results, key=distance_km): a stable insertion sort.
RECURSIVE SortByKm(_)
InsertByKm(r, sorted) ==
    LET k == Cardinality({i \in Idx(sorted) : sorted[i].distance_km <= r.distance_km})
    IN  SubSeq(sorted, 1, k) \o <<r>> \o SubSeq(sorted, k + 1, Len(sorted))
SortByKm(s) ==
    IF s = <<>> THEN <<>>
    ELSE LET rest == SortByKm(SubSeq(s, 1, Len(s) - 1))
         IN  InsertByKm(s[Len(s)], rest)

\* The resolved elements of an OK response, in destination order.
RECURSIVE Resolved(_, _)
Resolved(elements, destinations) ==
    IF elements = <<>> \/ destinations = <<>> THEN <<>>
    ELSE LET rest == Resolved(Tail(elements), Tail(destinations))
         IN  IF Head(elements).status = "OK"
             THEN <<[court_id |-> Head(destinations).court_id,
                     court_name |-> Head(destinations).court_name,
                     distance_km |-> Head(elements).value \div 1000]>> \o rest
             ELSE rest

\* get_distance_matrix_with_logging: no call at all without destinations; else the
\* governor first, outside the try block; then the request, whose every failure
\* gives the empty list.
get_distance_matrix_with_logging(st, month, destinations, resp) ==
    IF destinations = <<>> THEN [called |-> FALSE, results |-> <<>>]
    ELSE LET inc == increment_api_calls(st, month)
         IN  IF inc.raised # NULL
             THEN [called |-> TRUE, call |-> Refused(inc), results |-> <<>>]
             ELSE IF resp.status = "OK"
             THEN [called |-> TRUE, call |-> Sent(inc),
                   results |-> SortByKm(Resolved(resp.elements, destinations))]
             ELSE [called |-> TRUE, call |-> Sent(inc), results |-> <<>>]

-----------------------------------------------------------------------------
(* The tables of one database and the queries on them *)

DB_NAMES == <<"db1", "db2">>
DBs == Idx(DB_NAMES)

SinDireccion == "Sin dirección"
ErrorGeocodificacion == "Error en geocodificación"
DireccionIncorrecta == "Dirección incorrecta o en otra ciudad"
NoJuzgadoEnCiudad == "No se encuentra juzgado en ciudad"
Sentinels == {SinDireccion, ErrorGeocodificacion, DireccionIncorrecta, NoJuzgadoEnCiudad}

\* The first row of a result set, or NoRow: fetchone().
NoRow == [none |-> TRUE]
FetchOne(rows) == IF rows = <<>> THEN NoRow ELSE Head(rows)
IsRow(r) == "none" \notin DOMAIN r

\* UPPER(TRIM(dc.city)) = :city under the collation of the column: a binary
\* comparison, or one that ignores accents (utf8mb4_unicode_ci and the like).
SqlCityEquals(city, variant) ==
    IF city = NoCity THEN FALSE
    ELSE IF collation = "accent_insensitive"
    THEN _remove_accents(Upper(Strip(city))) = _remove_accents(variant)
    ELSE Upper(Strip(city)) = variant

\* The id of the client's single active address: MIN(id) over its active,
\* non-deleted rows; NoneNum when it has none.
MinActiveAdressId(db, client_id) ==
    LET ids == {adresses[db][i].id : i \in {j \in Idx(adresses[db]) :
                    /\ adresses[db][j].client_id = client_id
                    /\ ~adresses[db][j].deleted
                    /\ adresses[db][j].is_active}}
    IN  IF ids = {} THEN NoneNum ELSE CHOOSE m \in ids : \A k \in ids : m <= k

\* The pending-claims query: lawsuits INNER JOIN clients LEFT JOIN the single
\* active address LEFT JOIN v_cities, in table order.
RECURSIVE JoinLawsuits(_, _)
JoinLawsuits(db, ls) ==
    IF ls = <<>> THEN <<>>
    ELSE LET l == Head(ls)
             cs == SelectSeq(clients[db], LAMBDA c : c.id = l.client_id /\ ~c.deleted)
             aid == MinActiveAdressId(db, l.client_id)
             as == SelectSeq(adresses[db], LAMBDA a :
                       a.client_id = l.client_id /\ ~a.deleted /\ a.is_active /\ a.id = aid)
             joined(c, a) ==
                 [lawsuit_id |-> l.id, client_id |-> l.client_id,
                  type_quantity |-> l.type_quantity, identification |-> c.identification,
                  adress |-> a.adress, neighborhood |-> a.neighborhood,
                  city |-> a.city, department |-> a.department]
             noAdress == [adress |-> NULL, neighborhood |-> NULL, city |-> NoCity,
                          department |-> NULL]
             here == IF l.lawsuit_status # "Pendiente" \/ l.deleted \/ cs = <<>> THEN <<>>
                     ELSE IF as = <<>> THEN <<joined(Head(cs), noAdress)>>
                     ELSE <<joined(Head(cs), Head(as))>>
         IN  here \o JoinLawsuits(db, Tail(ls))

\* The query with its optional LIMIT (a limit of 0 or None is no limit).
PendingLawsuits(db, limit) ==
    LET all == JoinLawsuits(db, lawsuits[db])
    IN  IF TruthyNum(limit) THEN SubSeq(all, 1, Min(limit, Len(all))) ELSE all

\* data_courts INNER JOIN court_coordinates restricted to active courts, neither
\* row soft-deleted, in table order.
RECURSIVE JoinCourts(_, _)
JoinCourts(dcs, coords) ==
    IF dcs = <<>> THEN <<>>
    ELSE LET dc == Head(dcs)
             ccs == SelectSeq(coords, LAMBDA cc : cc.court_id = dc.id /\ ~cc.deleted)
             here == IF dc.status = "Activo" /\ ~dc.deleted
                     THEN [i \in Idx(ccs) |->
                             [id |-> dc.id, name |-> dc.name, adress |-> dc.adress,
                              city |-> dc.city, type_cuantity |-> dc.type_cuantity,
                              latitude |-> ccs[i].latitude, longitude |-> ccs[i].longitude,
                              data_hash |-> ccs[i].data_hash]]
                     ELSE <<>>
         IN  here \o JoinCourts(Tail(dcs), coords)

\* A faulty candidate query, without the condition on the tier;
\* AssignedCourtEligible is validated against it.
CandidateCourtsAnyTier(db, cuantia, search_cities) ==
    SelectSeq(JoinCourts(data_courts[db], court_coordinates[db]), LAMBDA c :
        \E v \in search_cities : SqlCityEquals(c.city, v))

\* The candidate query: the joined courts of the claim's tier whose city equals
\* one of the search variants.
CandidateCourts(db, cuantia, search_cities) ==
    SelectSeq(JoinCourts(data_courts[db], court_coordinates[db]), LAMBDA c :
        /\ cuantia # NULL
        /\ c.type_cuantity = cuantia
        /\ \E v \in search_cities : SqlCityEquals(c.city, v))

\* geodesic((lat, lng), (lat, lng)).kilometers on the grid of the model.
StraightKm(lat1, lng1, lat2, lng2) == Abs(lat1 - lat2) + Abs(lng1 - lng2)

\* courts_with_distance.sort(key=straight_distance): a stable insertion sort.
RECURSIVE SortByStraight(_)
InsertByStraight(r, sorted) ==
    LET k == Cardinality({i \in Idx(sorted) :
                 sorted[i].straight_distance <= r.straight_distance})
    IN  SubSeq(sorted, 1, k) \o <<r>> \o SubSeq(sorted, k + 1, Len(sorted))
SortByStraight(s) ==
    IF s = <<>> THEN <<>>
    ELSE InsertByStraight(s[Len(s)], SortByStraight(SubSeq(s, 1, Len(s) - 1)))

\* The number of straight-line-nearest candidates sent to the routing service.
TopCourts == 5

-----------------------------------------------------------------------------
(* Claim Assignment Engine, one claim: core/assign_courts.py *)

\* What a call did, as the step's record keeps it.
CallObs(api, call) ==
    [api |-> api, raised |-> call.raised, dispatched |-> call.dispatched,
     after_today |-> call.after_today, after_month |-> call.after_month]

\* The text stored in client_address.
AddressText(kind, l, found_city) ==
    [kind |-> kind,
     address |-> IF kind = "full" THEN l.adress ELSE NULL,
     neighborhood |-> IF kind = "full" THEN OrEmpty(l.neighborhood) ELSE NULL,
     found_city |-> found_city,
     city |-> IF kind = "sin" THEN NoCity ELSE l.city]

NotAvailable == <<"N", "/", "A">>

\* NOW() in a statement: the clock, read to the precision of the run.
NOW == hist.runs

\* The columns an INSERT or UPDATE of the engine sets; updated_at is left to
\* the table by the INSERT and set by the UPDATE (see Upsert).
AssignmentRow(l, address, city, court_id, court_name, distance_km, cuantia_type, hash) ==
    [lawsuit_id |-> l.lawsuit_id, client_id |-> l.client_id,
     client_identification |-> l.identification,
     client_address |-> address, client_city |-> city,
     court_id |-> court_id, court_name |-> court_name, distance_km |-> distance_km,
     cuantia_type |-> cuantia_type, data_hash |-> hash, updated_at |-> NoneNum]

\* The error of the candidate query built from an empty list of variants: AND ().
SqlSyntaxError == "You have an error in your SQL syntax"

\* A faulty skip test that compares the hash only when the row holds a
\* sentinel, so that no real assignment is skipped; SkipFrame is validated
\* against it.
SkipSentinelsOnly(existing, current_hash) ==
    /\ IsRow(existing)
    /\ existing.data_hash = current_hash
    /\ Truthy(existing.court_name)
    /\ existing.court_name \in Sentinels

\* The existing row wins the skip: same hash and a real court name.
SkipUnchanged(existing, current_hash) ==
    /\ IsRow(existing)
    /\ existing.data_hash = current_hash
    /\ Truthy(existing.court_name)
    /\ existing.court_name \notin Sentinels

\* The database columns the hash of a claim is taken over.
ClaimHash(l) ==
    calculate_client_hash(l.lawsuit_id, l.adress, l.neighborhood, l.city,
                          l.department, l.type_quantity)

\* A faulty write that stores the hash of the claim with real assignments only
\* and the hash of an empty claim with sentinels; HashOfLastEvaluation is
\* validated against it.
StoredHashOfAssigned(current_hash, court_name) ==
    IF court_name \in Sentinels
    THEN calculate_client_hash(0, NULL, NULL, NoCity, NULL, NULL)
    ELSE current_hash

\* The hash an engine write stores with the row.
StoredHash(current_hash, court_name) == current_hash

\* A faulty ranking that leaves the candidates in the order of the query;
\* StraightLineFallback is validated against it.
RankCourtsUnsorted(courts, lat, lng) ==
    LET with_distance == [i \in Idx(courts) |->
            [court_id |-> courts[i].id, court_name |-> courts[i].name,
             lat |-> courts[i].latitude, lng |-> courts[i].longitude,
             straight_distance |->
                 StraightKm(lat, lng, courts[i].latitude, courts[i].longitude)]]
    IN  SubSeq(with_distance, 1, Min(TopCourts, Len(with_distance)))

\* A faulty ranking that sorts the candidates and sends all of them to the
\* routing service; CallsOfClaim is validated against it.
RankCourtsAll(courts, lat, lng) ==
    SortByStraight([i \in Idx(courts) |->
        [court_id |-> courts[i].id, court_name |-> courts[i].name,
         lat |-> courts[i].latitude, lng |-> courts[i].longitude,
         straight_distance |->
             StraightKm(lat, lng, courts[i].latitude, courts[i].longitude)]])

\* The courts the engine ranks: every candidate with its straight-line distance,
\* nearest first, cut to the first TopCourts.
RankCourts(courts, lat, lng) ==
    LET with_distance == [i \in Idx(courts) |->
            [court_id |-> courts[i].id, court_name |-> courts[i].name,
             lat |-> courts[i].latitude, lng |-> courts[i].longitude,
             straight_distance |->
                 StraightKm(lat, lng, courts[i].latitude, courts[i].longitude)]]
        sorted == SortByStraight(with_distance)
    IN  SubSeq(sorted, 1, Min(TopCourts, Len(sorted)))

\* A faulty choice that ignores the routed distances; RoutedMinimum is
\* validated against it.
ChooseNearestStraight(top_courts, real_distances) ==
    [court |-> top_courts[1], final_distance |-> top_courts[1].straight_distance]

\* The court and distance persisted, from the ranked courts and the routed
\* distances (sorted, possibly empty).
ChooseCourt(top_courts, real_distances) ==
    IF real_distances = <<>>
    THEN [court |-> top_courts[1], final_distance |-> top_courts[1].straight_distance]
    ELSE LET data == real_distances[1]
             k == CHOOSE i \in Idx(top_courts) :
                      /\ top_courts[i].court_id = data.court_id
                      /\ \A j \in 1..(i - 1) : top_courts[j].court_id # data.court_id
         IN  [court |-> top_courts[k], final_distance |-> data.distance_km]

\* What one iteration of the loop over the pending claims did: the bot state
\* saved, the exception raised (NULL if none), the branch taken, the row
\* written (NoRow if none), the calls made, whether the courts of the city
\* were queried, and the destinations routed to.
\* A faulty ending of the iteration that lets a geocoding failure out as an
\* exception; RecoverableOutcomes is validated against it.
DoneUnlessError(c, outcome, row, st, calls) ==
    [st |-> st, raised |-> IF outcome = "error" THEN "Error en geocodificación" ELSE NULL,
     outcome |-> IF outcome = "error" THEN "raised" ELSE outcome,
     row |-> IF outcome = "error" THEN NoRow ELSE row, calls |-> calls,
     existed |-> IsRow(c.existing), existing |-> c.existing, queried |-> FALSE,
     destinations |-> <<>>]

Done(c, outcome, row, st, calls) ==
    [st |-> st, raised |-> NULL, outcome |-> outcome, row |-> row, calls |-> calls,
     existed |-> IsRow(c.existing), existing |-> c.existing, queried |-> FALSE,
     destinations |-> <<>>]
Raise(c, msg, st, calls) ==
    [st |-> st, raised |-> msg, outcome |-> "raised", row |-> NoRow, calls |-> calls,
     existed |-> IsRow(c.existing), existing |-> c.existing, queried |-> FALSE,
     destinations |-> <<>>]

\* A faulty sentinel write that sets the message and leaves the court and the
\* distance of the row it updates; SentinelIffNoCourt is validated against it.
SentinelKeepingCourt(c, msg, address, city, cuantia) ==
    AssignmentRow(c.l, address, city,
                  IF IsRow(c.existing) THEN c.existing.court_id ELSE NoneNum, msg,
                  IF IsRow(c.existing) THEN c.existing.distance_km ELSE NoneNum, cuantia,
                  StoredHash(c.current_hash, msg))

\* A row that records why no court was assigned.
Sentinel(c, msg, address, city, cuantia) ==
    AssignmentRow(c.l, address, city, NoneNum, msg, NoneNum, cuantia,
                  StoredHash(c.current_hash, msg))

\* The routing answer is in: the court is chosen and the assignment persisted.
Selected(c, g, top_courts, m) ==
    LET calls == <<CallObs("geocode", g.call), CallObs("route", m.call)>>
        chosen == ChooseCourt(top_courts, m.results)
    IN  IF m.call.raised # NULL
        THEN [Raise(c, m.call.raised, m.call.st, calls)
                 EXCEPT !.queried = TRUE, !.destinations = top_courts]
        ELSE [Done(c, "success",
                   AssignmentRow(c.l, AddressText("full", c.l, NoCity), c.l.city,
                                 chosen.court.court_id, chosen.court.court_name,
                                 chosen.final_distance, c.l.type_quantity,
                                 StoredHash(c.current_hash, chosen.court.court_name)),
                   m.call.st, calls)
                 EXCEPT !.queried = TRUE, !.destinations = top_courts]

\* The candidates are ranked: one routing request for the nearest of them.
Routed(c, g, top_courts) ==
    Selected(c, g, top_courts,
             get_distance_matrix_with_logging(g.call.st, c.month, top_courts, c.route))

\* The geocoding call has returned or raised: failure, wrong city, candidate
\* look-up.
Geocoded(c, g) ==
    LET l == c.l
        gcall == <<CallObs("geocode", g.call)>>
    IN  IF g.call.raised # NULL
        THEN Raise(c, g.call.raised, g.call.st, gcall)
        ELSE IF ~TruthyNum(g.lat) \/ ~TruthyNum(g.lng)
        THEN Done(c, "error",
                  Sentinel(c, ErrorGeocodificacion, AddressText("full", l, NoCity),
                           l.city, NULL),
                  g.call.st, gcall)
        ELSE IF TruthyCity(g.found_city) /\ ~cities_match(g.found_city, l.city, city_variants)
        THEN Done(c, "wrong_city",
                  Sentinel(c, DireccionIncorrecta, AddressText("wrong", l, g.found_city),
                           l.city, NULL),
                  g.call.st, gcall)
        ELSE IF c.search_cities = {}
        THEN Raise(c, SqlSyntaxError, g.call.st, gcall)
        ELSE IF c.courts = <<>>
        THEN [Done(c, "no_court_in_city",
                   Sentinel(c, NoJuzgadoEnCiudad, AddressText("full", l, NoCity), l.city,
                            l.type_quantity),
                   g.call.st, gcall)
                 EXCEPT !.queried = TRUE]
        ELSE Routed(c, g, RankCourts(c.courts, g.lat, g.lng))

\* A faulty test that takes a claim as without address only when street and
\* city are both missing; NoAddressSentinel is validated against it.
NoAddressNorCity(l) == ~Truthy(l.adress) /\ ~TruthyCity(l.city)

\* A faulty test for the retry of a claim without court, which looks for the
\* sentinel of the wrong city; NoCourtRetry is validated against it.
NoCourtOfWrongCity(existing, current_hash) ==
    /\ IsRow(existing)
    /\ existing.data_hash = current_hash
    /\ existing.court_name = DireccionIncorrecta

\* stored_hash == current_hash and existing_court == "No se encuentra juzgado
\* en ciudad"
NoCourtUnchanged(existing, current_hash) ==
    /\ IsRow(existing)
    /\ existing.data_hash = current_hash
    /\ existing.court_name = NoJuzgadoEnCiudad

\* not client_address or not client_city
NoAddress(l) == ~Truthy(l.adress) \/ ~TruthyCity(l.city)

\* The claim's hash and row are known: skip, or the no-address sentinel, or the
\* geocoding call.
Looked(c, st) ==
    LET l == c.l
        no_court == NoCourtUnchanged(c.existing, c.current_hash)
        no_address == NoAddress(l)
    IN  IF SkipUnchanged(c.existing, c.current_hash)
        THEN Done(c, "skipped", NoRow, st, <<>>)
        ELSE IF no_court /\ no_address
        THEN Done(c, "skipped_no_address", NoRow, st, <<>>)
        ELSE IF no_court /\ c.search_cities = {}
        THEN Raise(c, SqlSyntaxError, st, <<>>)
        ELSE IF no_court /\ c.courts = <<>>
        THEN [Done(c, "skipped_no_court", NoRow, st, <<>>) EXCEPT !.queried = TRUE]
        ELSE IF no_address
        THEN Done(c, "no_address",
                  Sentinel(c, SinDireccion, AddressText("sin", l, NoCity),
                           IF TruthyCity(l.city) THEN l.city ELSE NotAvailable, NULL),
                  st, <<>>)
        ELSE Geocoded(c, geocode_address_with_logging(st, c.month, c.geo))

\* A faulty look-up by the claim instead of the client; PairOnOneRow is
\* validated against it.
LookUpByLawsuit(db, l) ==
    FetchOne(SelectSeq(assignments[db], LAMBDA row : row.lawsuit_id = l.lawsuit_id))

\* SELECT id, data_hash, court_name FROM lawsuit_court_assignments WHERE
\* client_id = :client_id, fetchone().
LookUp(db, l) ==
    FetchOne(SelectSeq(assignments[db], LAMBDA row : row.client_id = l.client_id))

\* One iteration of the loop over the pending claims of database db, for the
\* claim l, from the look-up of its row on, with the bot state st on file; geo
\* and route are what the services answer if asked.
EvaluateClaim(existing, db, l, st, month, geo, route) ==
    CHOOSE r \in {Looked(c, st) : c \in {
        [l |-> l, month |-> month, geo |-> geo, route |-> route,
         current_hash |-> ClaimHash(l),
         existing |-> existing,
         search_cities |-> get_city_search_variants(l.city, city_variants),
         courts |-> CandidateCourts(db, l.type_quantity,
                                    get_city_search_variants(l.city, city_variants))]}} : TRUE

\* A faulty write that always inserts; IdempotentSecondRun is validated
\* against it.
InsertAlways(rows, existed, row) == Append(rows, row)

\* The table after the engine's write: UPDATE ... SET ..., updated_at = NOW()
\* WHERE client_id when a row existed at the look-up, else INSERT.
Upsert(rows, existed, row) ==
    IF existed
    THEN [i \in Idx(rows) |->
             IF rows[i].client_id = row.client_id
             THEN [row EXCEPT !.updated_at = NOW] ELSE rows[i]]
    ELSE Append(rows, row)

\* The transaction of the engine's connection: for each write not yet
\* committed, the client and the row it had before (NoRow when it had none).
\* A faulty commit that leaves the writes pending; WritesSurviveAbort is
\* validated against it.
CommitLater(tx) == tx

\* connection.commit() after a claim's UPDATE or INSERT: nothing is pending.
Commit(tx) == <<>>

\* The connection is closed by an exception leaving its with block: the writes
\* still pending are undone, the last one first.
RECURSIVE Rollback(_, _)
Rollback(rows, tx) ==
    IF tx = <<>> THEN rows
    ELSE LET u == tx[Len(tx)]
             undone == IF IsRow(u.before)
                       THEN [i \in Idx(rows) |->
                                IF rows[i].client_id = u.client_id THEN u.before ELSE rows[i]]
                       ELSE SelectSeq(rows, LAMBDA row : row.client_id # u.client_id)
         IN  Rollback(undone, SubSeq(tx, 1, Len(tx) - 1))

\* The counters of one database's engine run.
ZeroStats ==
    [total_procesados |-> 0, success |-> 0, no_address |-> 0, no_court_in_city |-> 0,
     wrong_city |-> 0, error |-> 0, updated |-> 0, inserted |-> 0, skipped |-> 0,
     api_calls_saved |-> 0]

Bump(stats, r) ==
    LET o == r.outcome
        wrote == IsRow(r.row)
    IN  [stats EXCEPT
            !.success = @ + (IF o = "success" THEN 1 ELSE 0),
            !.no_address = @ + (IF o = "no_address" THEN 1 ELSE 0),
            !.no_court_in_city = @ + (IF o = "no_court_in_city" THEN 1 ELSE 0),
            !.wrong_city = @ + (IF o = "wrong_city" THEN 1 ELSE 0),
            !.error = @ + (IF o = "error" THEN 1 ELSE 0),
            !.updated = @ + (IF wrote /\ r.existed THEN 1 ELSE 0),
            !.inserted = @ + (IF wrote /\ ~r.existed THEN 1 ELSE 0),
            !.skipped = @ + (IF o \in {"skipped", "skipped_no_address", "skipped_no_court"}
                            THEN 1 ELSE 0),
            !.api_calls_saved = @ + (IF o = "skipped_no_court" THEN 2 ELSE 0)]

-----------------------------------------------------------------------------
(* Court Coordinate Synchronizer, the statements of one database:          *)
(* core/geocode_courts.py                                                  *)

HasCourt(db, id) == \E i \in Idx(data_courts[db]) : data_courts[db][i].id = id
CourtOf(db, id) ==
    data_courts[db][CHOOSE i \in Idx(data_courts[db]) : data_courts[db][i].id = id]

\* A faulty step 1 that has the first UPDATE only: the coordinate of a
\* restored court keeps its marker; MarkersFollowCourts is validated against it.
SyncDeletedOnly(db, ccs) ==
    [i \in Idx(ccs) |->
        IF HasCourt(db, ccs[i].court_id) /\ CourtOf(db, ccs[i].court_id).deleted
           /\ ~ccs[i].deleted
        THEN [ccs[i] EXCEPT !.deleted = TRUE,
                            !.deleted_at = CourtOf(db, ccs[i].court_id).deleted_at]
        ELSE ccs[i]]

\* Step 1: the two UPDATEs, the first copying the court's deleted_at onto a
\* coordinate that has none, the second clearing the deleted_at of a
\* coordinate whose court has none.  In a row, deleted says that deleted_at
\* is not NULL and deleted_at is its value.
SyncDeleted(db, ccs) ==
    LET marked == [i \in Idx(ccs) |->
            IF HasCourt(db, ccs[i].court_id) /\ CourtOf(db, ccs[i].court_id).deleted
               /\ ~ccs[i].deleted
            THEN [ccs[i] EXCEPT !.deleted = TRUE,
                                !.deleted_at = CourtOf(db, ccs[i].court_id).deleted_at]
            ELSE ccs[i]]
    IN  [i \in Idx(marked) |->
            IF HasCourt(db, marked[i].court_id) /\ ~CourtOf(db, marked[i].court_id).deleted
               /\ marked[i].deleted
            THEN [marked[i] EXCEPT !.deleted = FALSE, !.deleted_at = NoneNum]
            ELSE marked[i]]

\* Step 2: DELETE the coordinates whose court no longer exists.
DeleteOrphans(db, ccs) == SelectSeq(ccs, LAMBDA cc : HasCourt(db, cc.court_id))

\* A faulty detection that takes every joined court for changed, whatever its
\* stored hash; SyncCallsAsDue is validated against it.
ChangedCourtsAll(joined) ==
    [i \in Idx(joined) |->
        [id |-> joined[i].id, name |-> joined[i].name, address |-> joined[i].adress,
         city |-> joined[i].city,
         new_hash |-> calculate_court_hash(joined[i].id, joined[i].adress, joined[i].city)]]

\* Step 3, the query: the joined courts whose stored hash differs from the hash
\* of their current address and city.
RECURSIVE ChangedCourts(_)
ChangedCourts(joined) ==
    IF joined = <<>> THEN <<>>
    ELSE LET c == Head(joined)
             current_hash == calculate_court_hash(c.id, c.adress, c.city)
         IN  (IF c.data_hash # current_hash
              THEN <<[id |-> c.id, name |-> c.name, address |-> c.adress,
                      city |-> c.city, new_hash |-> current_hash]>>
              ELSE <<>>) \o ChangedCourts(Tail(joined))

\* A faulty UPDATE that writes the new position and leaves the stored hash;
\* RegeocodeAllOrNothing is validated against it.
UpdateCoordinateKeepingHash(ccs, court, lat, lng) ==
    [i \in Idx(ccs) |->
        IF ccs[i].court_id = court.id
        THEN [ccs[i] EXCEPT !.latitude = lat, !.longitude = lng,
                            !.geocoded_address = <<court.address, court.city>>]
        ELSE ccs[i]]

\* Step 3, the UPDATE after a successful geocode.
UpdateCoordinate(ccs, court, lat, lng) ==
    [i \in Idx(ccs) |->
        IF ccs[i].court_id = court.id
        THEN [ccs[i] EXCEPT !.latitude = lat, !.longitude = lng,
                            !.geocoded_address = <<court.address, court.city>>,
                            !.data_hash = court.new_hash]
        ELSE ccs[i]]

\* Step 3.5: court names copied onto the assignments that reference the court,
\* with updated_at = NOW().
SyncNames(db, rows) ==
    [i \in Idx(rows) |->
        IF rows[i].court_id # NoneNum /\ HasCourt(db, rows[i].court_id)
           /\ rows[i].court_name # CourtOf(db, rows[i].court_id).name
        THEN [rows[i] EXCEPT !.court_name = CourtOf(db, rows[i].court_id).name,
                             !.updated_at = NOW]
        ELSE rows[i]]

\* Step 4, the query: the active courts with no coordinate row at all.
NewCourts(db, coords) ==
    LET new == SelectSeq(data_courts[db], LAMBDA dc :
                   /\ dc.status = "Activo" /\ ~dc.deleted
                   /\ \A i \in Idx(coords) : coords[i].court_id # dc.id)
    IN  [i \in Idx(new) |->
            [id |-> new[i].id, name |-> new[i].name, address |-> new[i].adress,
             city |-> new[i].city,
             new_hash |-> calculate_court_hash(new[i].id, new[i].adress, new[i].city)]]

\* Step 4, the INSERT after a successful geocode.
InsertCoordinate(ccs, court, lat, lng) ==
    Append(ccs, [court_id |-> court.id, latitude |-> lat, longitude |-> lng,
                 geocoded_address |-> <<court.address, court.city>>,
                 data_hash |-> court.new_hash, deleted |-> FALSE, deleted_at |-> NoneNum])

-----------------------------------------------------------------------------
(* Bounds and the answers of the external services *)

\* Runs started in one behaviour.
MaxRuns == 2
\* Events from outside in one behaviour: the month changing, the daily reset,
\* the operator's stop and start.
MaxEnv == 2
\* Changes made to the databases by their owners in one behaviour.
MaxChanges == 1

BA == <<"B", "A">>
CA == <<"C", "A">>

\* What the geocoding service may answer to a request.
Locality(name) == [types |-> {"locality", "political"}, long_name |-> name]
Admin2(name) == [types |-> {"administrative_area_level_2", "political"}, long_name |-> name]
GeoOk(lat, lng, components) ==
    [status |-> "OK", lat |-> lat, lng |-> lng, components |-> components]
GeoFail(status) == [status |-> status, lat |-> NoneNum, lng |-> NoneNum, components |-> <<>>]
GeoAnswers ==
    {GeoOk(1, 1, comps) : comps \in {<<>>, <<Locality(<<"B", "á", "d">>)>>, <<Locality(CA)>>}}
    \cup {GeoFail("ZERO_RESULTS")}

\* The two kinds of answer: coordinates with no locality, or nothing.
GeoFew == {GeoOk(1, 1, <<>>), GeoFail("ZERO_RESULTS")}

\* The same, or the provider's refusal for want of quota.
GeoEntry == GeoFew \cup {GeoFail("OVER_QUERY_LIMIT")}

\* What the routing service may answer for one destination, and for a request
\* with n destinations.
RouteOk(meters) == [status |-> "OK", value |-> meters]
RouteNotFound == [status |-> "NOT_FOUND", value |-> 0]
RouteElements == {RouteOk(1000), RouteOk(5000), RouteNotFound}
RouteFail(status) == [status |-> status, elements |-> <<>>]
RouteAnswers(n) ==
    {[status |-> "OK", elements |-> e] : e \in [1..n -> RouteElements]}
    \cup {RouteFail("OVER_QUERY_LIMIT"), RouteFail("TIMEOUT")}

\* The two kinds of answer: every destination resolved, or nothing.
RouteFew(n) ==
    {[status |-> "OK", elements |-> [i \in 1..n |-> RouteOk(1000)]], RouteFail("TIMEOUT")}

-----------------------------------------------------------------------------
(* Runs: tasks.py, and the loops over the databases of geocode_courts.py and *)
(* assign_courts.py                                                        *)

\* The two Celery tasks, and the engine run as a script (assign_courts.py's
\* __main__), which calls process_pending_lawsuits() with no check of the governor.
Tasks == {"scheduled", "manual"}
Runners == Tasks \cup {"direct"}
Procs == Runners \cup {"engine"}

IdleRun ==
    [pc |-> "idle", db |-> 0, queue |-> <<>>, stats |-> ZeroStats, limit |-> NoneNum,
     quota_hit |-> FALSE, raised |-> FALSE, end_status |-> NULL, existing |-> NoRow,
     held |-> NoRow, provider_quota |-> FALSE, due |-> 0, asked |-> 0, located |-> 0,
     tx |-> <<>>, written |-> <<>>]

NoObs ==
    [kind |-> "none", proc |-> NULL, db |-> 0, calls |-> <<>>, outcome |-> NULL,
     raised |-> NULL, row |-> NoRow, existed |-> FALSE, existing |-> NoRow,
     claim |-> NoRow, geo |-> NoRow,
     route |-> NoRow, queried |-> FALSE, destinations |-> <<>>, stats |-> ZeroStats]

\* The step's i-th call was dispatched, so the service answered it.
Answered(calls, i) == Len(calls) >= i /\ calls[i].dispatched

\* One of the answers the step received has the status OVER_QUERY_LIMIT: the
\* provider reports that the quota of the key is exhausted.
ProviderExhausted(calls, geo, route) ==
    \/ Answered(calls, 1) /\ geo.status = "OVER_QUERY_LIMIT"
    \/ Answered(calls, 2) /\ route.status = "OVER_QUERY_LIMIT"

\* The requests of a step that were dispatched.
Dispatched(calls) == Cardinality({i \in Idx(calls) : calls[i].dispatched})

\* The history counters after a step that made these calls from bot state st:
\* requests dispatched since the last daily reset, and since the governor last
\* moved its month marker.
Account(h, st, calls) ==
    [h EXCEPT
        !.dispatched_today = @ + Dispatched(calls),
        !.dispatched_month =
            (IF calls # <<>> /\ st.current_month # now_month THEN 0 ELSE @)
            + Dispatched(calls)]

\* The history of evaluations: for each database, the clients evaluated to an
\* outcome, each with the hash of its claim last evaluated.
Evaluated(ev, db, client_id, hash) ==
    [ev EXCEPT ![db] =
        SelectSeq(@, LAMBDA e : e.client_id # client_id)
        \o <<[client_id |-> client_id, hash |-> hash]>>]

\* A loop that takes the databases one after another through both phases: the
\* synchronization of a database is followed by its own assignment;
\* PhasesInOrder is validated against it.
NextDbInterleaved(r, phase, after) ==
    IF phase = "sync"
    THEN [r EXCEPT !.pc = "assign", !.queue = <<>>, !.stats = ZeroStats,
                   !.existing = NoRow]
    ELSE IF r.db < Len(DB_NAMES)
         THEN [r EXCEPT !.pc = "sync", !.db = r.db + 1, !.queue = <<>>,
                        !.stats = ZeroStats, !.existing = NoRow]
         ELSE [r EXCEPT !.pc = after, !.db = 1, !.queue = <<>>, !.stats = ZeroStats,
                        !.existing = NoRow]

\* The run, positioned at the database after db in the same phase, or at the
\* next phase after the last database.
NextDb(r, phase, after) ==
    IF r.db < Len(DB_NAMES)
    THEN [r EXCEPT !.pc = phase, !.db = r.db + 1, !.queue = <<>>, !.stats = ZeroStats,
                   !.existing = NoRow]
    ELSE [r EXCEPT !.pc = after, !.db = 1, !.queue = <<>>, !.stats = ZeroStats,
                   !.existing = NoRow]

\* A faulty except clause that leaves the loop: the phase ends with the
\* database that failed; DbFaultBoundary is validated against it.
CaughtAndLeft(r, msg, phase, after) ==
    [r EXCEPT !.raised = TRUE,
              !.quota_hit = @ \/ msg \in {MonthlyLimitMsg, DailyLimitMsg},
              !.pc = after, !.db = 1, !.queue = <<>>, !.stats = ZeroStats,
              !.existing = NoRow]

\* The except clause of a loop over the databases: the exception of one
\* database is printed and the loop goes on to the next database.
CaughtByDbLoop(r, msg, phase, after) ==
    NextDb([r EXCEPT !.raised = TRUE,
                     !.quota_hit = @ \/ msg \in {MonthlyLimitMsg, DailyLimitMsg}],
           phase, after)

RunFrame ==
    UNCHANGED <<api_limits, now_month, city_variants, data_courts, lawsuits, clients,
                adresses, collation, oracle>>

\* The entry point of a task: the can_run check, then status RUNNING.
StartRun(p, limit) ==
    /\ run[p].pc = "idle"
    /\ hist.runs < MaxRuns
    /\ IF can_run(state)[1]
       THEN /\ state' = update_status(state, "running", NULL)
            /\ run' = [run EXCEPT ![p] = [IdleRun EXCEPT !.pc = "sync", !.db = 1,
                                                         !.limit = limit]]
       ELSE /\ UNCHANGED state
            /\ run' = [run EXCEPT ![p] = [IdleRun EXCEPT !.end_status =
                          IF p = "direct" THEN "refused" ELSE "skipped"]]
    /\ hist' = [hist EXCEPT !.runs = @ + 1]
    /\ obs' = [NoObs EXCEPT !.kind = "start", !.proc = p]
    /\ RunFrame
    /\ UNCHANGED <<court_coordinates, assignments>>

\* Runs do not overlap: a task starts when no other run is in progress.
Start(p) ==
    /\ p \in Tasks
    /\ \A q \in Procs : run[q].pc = "idle"
    /\ \E limit \in (IF p = "manual" THEN {NoneNum, 1} ELSE {NoneNum}) : StartRun(p, limit)

\* execute_bot_process(limit): the full cycle called directly; it raises the
\* reason when the bot may not run.
StartDirect(p) ==
    /\ p = "direct"
    /\ \A q \in Procs : run[q].pc = "idle"
    /\ \E limit \in {NoneNum, 1} : StartRun(p, limit)

\* A task starts whatever else is in progress: the worker takes the scheduled
\* task and the requested one as they come.
StartOverlapping(p) ==
    /\ p \in Tasks
    /\ \E limit \in (IF p = "manual" THEN {NoneNum, 1} ELSE {NoneNum}) : StartRun(p, limit)

\* The engine started as a script: process_pending_lawsuits() at once.
EngineMain(p) ==
    /\ p = "engine"
    /\ \A q \in Procs : run[q].pc = "idle"
    /\ hist.runs < MaxRuns
    /\ run' = [run EXCEPT ![p] = [IdleRun EXCEPT !.pc = "assign", !.db = 1]]
    /\ hist' = [hist EXCEPT !.runs = @ + 1, !.before = assignments]
    /\ obs' = [NoObs EXCEPT !.kind = "engine_main", !.proc = p]
    /\ RunFrame
    /\ UNCHANGED <<state, court_coordinates, assignments>>

\* The courts of a database that are due for geocoding: active and not
\* soft-deleted, with a coordinate row whose stored hash differs from the hash
\* of the court's address and city, or with no coordinate row.
DueCourts(db) ==
    {i \in Idx(data_courts[db]) :
        /\ data_courts[db][i].status = "Activo"
        /\ ~data_courts[db][i].deleted
        /\ \A j \in Idx(court_coordinates[db]) :
               court_coordinates[db][j].court_id = data_courts[db][i].id =>
                   court_coordinates[db][j].data_hash #
                       calculate_court_hash(data_courts[db][i].id, data_courts[db][i].adress,
                                            data_courts[db][i].city)}

\* sync_court_coordinates_single_db, steps 1 and 2 and the query of step 3.
\* The run remembers how many courts were due when it last began on a
\* database, and counts the geocoding calls it has attempted since, the
\* refused one included, and those that gave coordinates.
SyncBegin(p) ==
    /\ run[p].pc = "sync"
    /\ LET db == run[p].db
           coords == DeleteOrphans(db, SyncDeleted(db, court_coordinates[db]))
       IN  /\ court_coordinates' = [court_coordinates EXCEPT ![db] = coords]
           /\ run' = [run EXCEPT ![p].pc = "regeocode",
                                 ![p].queue = ChangedCourts(JoinCourts(data_courts[db], coords)),
                                 ![p].due = Cardinality(DueCourts(db)),
                                 ![p].asked = 0, ![p].located = 0]
    /\ obs' = [NoObs EXCEPT !.kind = "sync_begin", !.proc = p, !.db = run[p].db]
    /\ RunFrame
    /\ UNCHANGED <<state, assignments, hist>>

\* One court of step 3 or step 4 is geocoded, the service answering from Geo;
\* on success the coordinate is written by Write.  A refusal by the governor
\* leaves the function and is caught by the loop over the databases.
GeocodeCourt(p, pc, kind, Write(_, _, _, _), Geo) ==
    /\ run[p].pc = pc
    /\ run[p].queue # <<>>
    /\ \E geo \in Geo : \E g \in {geocode_address_with_logging(state, now_month, geo)} :
         LET db == run[p].db
             court == Head(run[p].queue)
             calls == <<CallObs("geocode", g.call)>>
             located == TruthyNum(g.lat) /\ TruthyNum(g.lng)
         IN  /\ state' = g.call.st
             /\ hist' = Account(hist, state, calls)
             /\ obs' = [NoObs EXCEPT !.kind = kind, !.proc = p, !.db = db, !.calls = calls,
                                     !.raised = g.call.raised,
                                     !.geo = IF Answered(calls, 1) THEN geo ELSE NoRow,
                                     !.outcome = IF g.call.raised # NULL THEN "raised"
                                                 ELSE IF located THEN "geocoded" ELSE "error"]
             /\ IF g.call.raised # NULL
                THEN /\ run' = [run EXCEPT ![p] =
                            [CaughtByDbLoop(run[p], g.call.raised, "sync", "assign")
                                EXCEPT !.asked = @ + 1]]
                     /\ UNCHANGED court_coordinates
                ELSE /\ run' = [run EXCEPT ![p].queue = Tail(@),
                                           ![p].provider_quota =
                                               @ \/ ProviderExhausted(calls, geo, NoRow),
                                           ![p].asked = @ + 1,
                                           ![p].located = IF located THEN @ + 1 ELSE @]
                     /\ IF located
                        THEN court_coordinates' = [court_coordinates EXCEPT
                                 ![db] = Write(@, court, g.lat, g.lng)]
                        ELSE UNCHANGED court_coordinates
    /\ RunFrame
    /\ UNCHANGED assignments

\* Step 3: a court whose address changed is geocoded again.
Regeocode(p, Geo) == GeocodeCourt(p, "regeocode", "regeocode", UpdateCoordinate, Geo)

\* Step 3.5 and the query of step 4.
SyncNamesStep(p) ==
    /\ run[p].pc = "regeocode"
    /\ run[p].queue = <<>>
    /\ LET db == run[p].db
       IN  /\ assignments' = [assignments EXCEPT ![db] = SyncNames(db, @)]
           /\ run' = [run EXCEPT ![p].pc = "new_courts",
                                 ![p].queue = NewCourts(db, court_coordinates[db])]
    /\ obs' = [NoObs EXCEPT !.kind = "sync_names", !.proc = p, !.db = run[p].db]
    /\ RunFrame
    /\ UNCHANGED <<state, court_coordinates, hist>>

\* Step 4: a court with no coordinate row is geocoded.
GeocodeNew(p, Geo) == GeocodeCourt(p, "new_courts", "geocode_new", InsertCoordinate, Geo)

\* The summary of the database; the loop goes on to the next database.
SyncEnd(p) ==
    /\ run[p].pc = "new_courts"
    /\ run[p].queue = <<>>
    /\ run' = [run EXCEPT ![p] = NextDb(run[p], "sync", "assign")]
    /\ obs' = [NoObs EXCEPT !.kind = "sync_end", !.proc = p, !.db = run[p].db]
    /\ RunFrame
    /\ UNCHANGED <<state, court_coordinates, assignments, hist>>

\* process_pending_lawsuits_single_db: the query of the pending claims.  With
\* none the function returns at once.
AssignBegin(p) ==
    /\ run[p].pc = "assign"
    /\ LET db == run[p].db
           found == PendingLawsuits(db, run[p].limit)
       IN  IF found = <<>>
           THEN run' = [run EXCEPT ![p] = NextDb(run[p], "assign", "finish")]
           ELSE run' = [run EXCEPT ![p].pc = "claims", ![p].queue = found,
                                   ![p].stats = [ZeroStats EXCEPT !.total_procesados = Len(found)],
                                   ![p].tx = <<>>, ![p].written = <<>>]
    /\ obs' = [NoObs EXCEPT !.kind = "assign_begin", !.proc = p, !.db = run[p].db]
    /\ RunFrame
    /\ UNCHANGED <<state, court_coordinates, assignments, hist>>

\* The look-up of the row of the claim at the head of the queue, as a step of
\* its own: the row is read now and the claim evaluated later, other runs
\* writing in between.
LookUpStep(p) ==
    /\ run[p].pc = "claims"
    /\ run[p].queue # <<>>
    /\ run' = [run EXCEPT ![p].pc = "found",
                          ![p].existing = LookUp(run[p].db, Head(run[p].queue))]
    /\ obs' = [NoObs EXCEPT !.kind = "look_up", !.proc = p, !.db = run[p].db,
                            !.claim = Head(run[p].queue)]
    /\ RunFrame
    /\ UNCHANGED <<state, court_coordinates, assignments, hist>>

\* The row of the claim at the head of the queue as the engine knows it: the
\* one it has read, or the one it reads now.
Existing(p) ==
    IF run[p].pc = "found" THEN run[p].existing
    ELSE LookUp(run[p].db, Head(run[p].queue))

\* One claim of the loop, the services answering geo and route.  An exception
\* leaves the function and is caught by the loop over the databases.
AssignClaimWith(p, geo, route) ==
    /\ run[p].pc \in {"claims", "found"}
    /\ run[p].queue # <<>>
    /\ \E r \in {EvaluateClaim(Existing(p), run[p].db, Head(run[p].queue), state, now_month,
                                geo, route)} :
       LET db == run[p].db
           l == Head(run[p].queue)
       IN  /\ state' = r.st
           /\ hist' = [Account(hist, state, r.calls) EXCEPT
                          !.evaluated = IF r.raised # NULL THEN @
                                        ELSE Evaluated(@, db, l.client_id, ClaimHash(l))]
           /\ obs' = [NoObs EXCEPT !.kind = "claim", !.proc = p, !.db = db,
                                   !.calls = r.calls, !.outcome = r.outcome,
                                   !.raised = r.raised, !.row = r.row,
                                   !.existed = r.existed, !.existing = r.existing,
                                   !.claim = l,
                                   !.geo = IF Answered(r.calls, 1) THEN geo ELSE NoRow,
                                   !.route = IF Answered(r.calls, 2) THEN route ELSE NoRow,
                                   !.queried = r.queried,
                                   !.destinations = r.destinations,
                                   !.stats = IF r.raised # NULL THEN run[p].stats
                                             ELSE Bump(run[p].stats, r)]
           /\ IF r.raised # NULL
              THEN /\ run' = [run EXCEPT ![p] =
                          [CaughtByDbLoop(run[p], r.raised, "assign", "finish")
                              EXCEPT !.tx = <<>>]]
                   /\ assignments' = [assignments EXCEPT ![db] = Rollback(@, run[p].tx)]
              ELSE /\ IF IsRow(r.row)
                      THEN assignments' = [assignments EXCEPT
                               ![db] = Upsert(@, r.existed, r.row)]
                      ELSE UNCHANGED assignments
                   /\ run' = [run EXCEPT ![p].pc = "claims", ![p].existing = NoRow,
                                         ![p].queue = Tail(@),
                                         ![p].stats = Bump(@, r),
                                         ![p].provider_quota =
                                             @ \/ ProviderExhausted(r.calls, geo, route),
                                         ![p].tx =
                                             IF IsRow(r.row)
                                             THEN Commit(Append(@, [client_id |-> l.client_id,
                                                                    before |-> r.existing]))
                                             ELSE @,
                                         ![p].written =
                                             IF IsRow(r.row)
                                             THEN Append(@, FetchOne(SelectSeq(assignments'[db], LAMBDA row :
                                                         row.client_id = l.client_id)))
                                             ELSE @]
    /\ RunFrame
    /\ UNCHANGED court_coordinates

\* The answers that matter to the claim at the head of the queue: the geocoding
\* service answers from Geo if the engine's request reaches it, and the routing
\* service from Routes(n) if, after that answer, the engine's request for n
\* destinations reaches it.
GeoAsked(p, Geo) ==
    LET probe == EvaluateClaim(Existing(p), run[p].db, Head(run[p].queue), state, now_month,
                               GeoFail("ZERO_RESULTS"), NoRow)
    IN  IF Answered(probe.calls, 1) THEN Geo ELSE {NoRow}
RoutesAsked(p, geo, Routes(_)) ==
    LET probe == EvaluateClaim(Existing(p), run[p].db, Head(run[p].queue), state, now_month,
                               geo, RouteFail("TIMEOUT"))
    IN  IF Answered(probe.calls, 2) THEN Routes(Len(probe.destinations)) ELSE {NoRow}

AssignClaim(p, Geo, Routes(_)) ==
    /\ run[p].pc \in {"claims", "found"}
    /\ run[p].queue # <<>>
    /\ \E geo \in GeoAsked(p, Geo) : \E route \in RoutesAsked(p, geo, Routes) :
           AssignClaimWith(p, geo, route)

\* One claim of the loop when the services are deterministic: the same request
\* gets the same answer in every run.  oracle.geo gives the geocoder's answer
\* to the address of each claim, oracle.route the status of the routing
\* service's answer for it.
OracleGeo(l) ==
    IF l.lawsuit_id \in DOMAIN oracle.geo THEN oracle.geo[l.lawsuit_id]
    ELSE GeoFail("ZERO_RESULTS")
OracleRoute(l, n) ==
    IF l.lawsuit_id \in DOMAIN oracle.route /\ oracle.route[l.lawsuit_id] = "OK"
    THEN [status |-> "OK", elements |-> [i \in 1..n |-> RouteOk(1000 * i)]]
    ELSE RouteFail("TIMEOUT")
AssignClaimOracle(p) ==
    /\ run[p].pc = "claims"
    /\ run[p].queue # <<>>
    /\ \E geo \in {OracleGeo(Head(run[p].queue))} :
       \E probe \in {EvaluateClaim(Existing(p), run[p].db, Head(run[p].queue), state, now_month,
                                   geo, RouteFail("TIMEOUT"))} :
           AssignClaimWith(p, geo, OracleRoute(Head(run[p].queue), Len(probe.destinations)))

\* The summary of the database; the loop goes on to the next database.
AssignEnd(p) ==
    /\ run[p].pc = "claims"
    /\ run[p].queue = <<>>
    /\ run' = [run EXCEPT ![p] = NextDb(run[p], "assign", "finish")]
    /\ obs' = [NoObs EXCEPT !.kind = "assign_end", !.proc = p, !.db = run[p].db,
                            !.stats = run[p].stats]
    /\ RunFrame
    /\ UNCHANGED <<state, court_coordinates, assignments, hist>>

\* The task ends normally: the statistics are read and the status is STOPPED.
Finish(p) ==
    /\ p \in Runners
    /\ run[p].pc = "finish"
    /\ state' = update_status(state, "stopped", NULL)
    /\ run' = [run EXCEPT ![p].pc = "idle", ![p].db = 0, ![p].end_status = "stopped"]
    /\ obs' = [NoObs EXCEPT !.kind = "finish", !.proc = p]
    /\ RunFrame
    /\ UNCHANGED <<court_coordinates, assignments, hist>>

\* What may fail between the engine's return and the last status update: a
\* statistics query on a database that is gone, or a write to the log on a
\* full disk.
StatsErrors ==
    {"OperationalError: Can't connect to MySQL server",
     "OSError: [Errno 122] Disk quota exceeded"}

\* "OVER_QUERY_LIMIT" in error_msg or "quota" in error_msg.lower(), over the
\* messages of the model.
MentionsQuota(error_msg) == error_msg = "OSError: [Errno 122] Disk quota exceeded"

\* The task's except clause: the exception is classified by its message, and
\* the status becomes NO_API_CREDITS or ERROR with the message.
FinishFailed(p) ==
    /\ p \in Runners
    /\ run[p].pc = "finish"
    /\ \E error_msg \in StatsErrors :
         /\ state' = IF MentionsQuota(error_msg) THEN mark_no_credits(state)
                     ELSE update_status(state, "error", error_msg)
         /\ run' = [run EXCEPT ![p].pc = "idle", ![p].db = 0, ![p].raised = TRUE,
                               ![p].end_status = IF MentionsQuota(error_msg)
                                                 THEN "no_api_credits" ELSE "error"]
         /\ obs' = [NoObs EXCEPT !.kind = "finish_failed", !.proc = p,
                                 !.raised = error_msg]
    /\ RunFrame
    /\ UNCHANGED <<court_coordinates, assignments, hist>>

\* The same update_status(STOPPED) as two steps, as another process sees it:
\* get_state() reads the file, and save_state() later writes what was read
\* with the new status, whatever the file has become in between.
FinishRead(p) ==
    /\ p \in Runners
    /\ run[p].pc = "finish"
    /\ run' = [run EXCEPT ![p].pc = "finish_save", ![p].held = state]
    /\ obs' = [NoObs EXCEPT !.kind = "finish_read", !.proc = p]
    /\ RunFrame
    /\ UNCHANGED <<state, court_coordinates, assignments, hist>>

FinishWrite(p) ==
    /\ p \in Runners
    /\ run[p].pc = "finish_save"
    /\ state' = update_status(run[p].held, "stopped", NULL)
    /\ run' = [run EXCEPT ![p].pc = "idle", ![p].db = 0, ![p].end_status = "stopped",
                          ![p].held = NoRow]
    /\ obs' = [NoObs EXCEPT !.kind = "finish", !.proc = p]
    /\ RunFrame
    /\ UNCHANGED <<court_coordinates, assignments, hist>>

\* The script ends after its loop over the databases.
EngineExit(p) ==
    /\ p = "engine"
    /\ run[p].pc = "finish"
    /\ run' = [run EXCEPT ![p].pc = "idle", ![p].db = 0, ![p].end_status = "exit"]
    /\ obs' = [NoObs EXCEPT !.kind = "engine_exit", !.proc = p]
    /\ RunFrame
    /\ UNCHANGED <<state, court_coordinates, assignments, hist>>

-----------------------------------------------------------------------------
(* The environment: the clock, the operator, the daily reset task and the  *)
(* applications that own the registry and the claims                       *)

EnvFrame == UNCHANGED <<api_limits, city_variants, run, collation, oracle>>

\* The calendar month changes.
Tick ==
    /\ hist.env < MaxEnv
    /\ now_month < MaxMonth
    /\ now_month' = now_month + 1
    /\ hist' = [hist EXCEPT !.env = @ + 1, !.event = "tick"]
    /\ obs' = [NoObs EXCEPT !.kind = "tick"]
    /\ EnvFrame
    /\ UNCHANGED <<state, data_courts, court_coordinates, lawsuits, clients, adresses,
                   assignments>>

\* tasks.reset_daily_api_counter, at midnight.
ResetDaily ==
    /\ hist.env < MaxEnv
    /\ state' = reset_daily_counter(state).st
    /\ hist' = [hist EXCEPT !.dispatched_today = 0, !.env = @ + 1,
                            !.event = "reset_daily"]
    /\ obs' = [NoObs EXCEPT !.kind = "reset_daily",
                            !.row = [old_count |-> reset_daily_counter(state).old_count,
                                     new_count |-> 0]]
    /\ EnvFrame
    /\ UNCHANGED <<now_month, data_courts, court_coordinates, lawsuits, clients, adresses,
                   assignments>>

\* POST /stop
ManualStop ==
    /\ hist.env < MaxEnv
    /\ state' = manual_stop(state)
    /\ hist' = [hist EXCEPT !.env = @ + 1, !.event = "manual_stop", !.stopped = TRUE]
    /\ obs' = [NoObs EXCEPT !.kind = "manual_stop"]
    /\ EnvFrame
    /\ UNCHANGED <<now_month, data_courts, court_coordinates, lawsuits, clients, adresses,
                   assignments>>

\* POST /start
ManualStart ==
    /\ hist.env < MaxEnv
    /\ state' = manual_start(state)
    /\ hist' = [hist EXCEPT !.env = @ + 1, !.event = "manual_start", !.stopped = FALSE]
    /\ obs' = [NoObs EXCEPT !.kind = "manual_start"]
    /\ EnvFrame
    /\ UNCHANGED <<now_month, data_courts, court_coordinates, lawsuits, clients, adresses,
                   assignments>>

\* Between two runs the registry changes one court: soft-deleted, revived,
\* deactivated, moved, renamed or removed.
ChangedCourt(c, kind) ==
    CASE kind = "delete" -> [c EXCEPT !.deleted = TRUE, !.deleted_at = NOW]
      [] kind = "revive" -> [c EXCEPT !.deleted = FALSE, !.deleted_at = NoneNum]
      [] kind = "deactivate" -> [c EXCEPT !.status = "Inactivo"]
      [] kind = "move" -> [c EXCEPT !.adress = "k9"]
      [] kind = "rename" -> [c EXCEPT !.name = "J9"]

CourtChange ==
    /\ hist.changes < MaxChanges
    /\ \A q \in Procs : run[q].pc = "idle"
    /\ \E db \in DBs : \E i \in Idx(data_courts[db]) :
         \E kind \in {"delete", "revive", "deactivate", "move", "rename", "remove"} :
            /\ data_courts' = [data_courts EXCEPT ![db] =
                   IF kind = "remove"
                   THEN SubSeq(@, 1, i - 1) \o SubSeq(@, i + 1, Len(@))
                   ELSE [@ EXCEPT ![i] = ChangedCourt(@, kind)]]
            /\ data_courts'[db] # data_courts[db]
    /\ hist' = [hist EXCEPT !.changes = @ + 1, !.event = "court_change"]
    /\ obs' = [NoObs EXCEPT !.kind = "court_change"]
    /\ EnvFrame
    /\ UNCHANGED <<state, now_month, court_coordinates, lawsuits, clients, adresses,
                   assignments>>

\* Between two runs a client's address changes: another street, another city,
\* no city any more, or it is no longer active.
ChangedAdress(a, kind) ==
    CASE kind = "street" -> [a EXCEPT !.adress = "a9"]
      [] kind = "city" -> [a EXCEPT !.city = CA]
      [] kind = "no_city" -> [a EXCEPT !.city = NoCity]
      [] kind = "inactive" -> [a EXCEPT !.is_active = FALSE]

AdressChange ==
    /\ hist.changes < MaxChanges
    /\ \A q \in Procs : run[q].pc = "idle"
    /\ \E db \in DBs : \E i \in Idx(adresses[db]) : \E kind \in {"street", "city", "no_city", "inactive"} :
            /\ adresses' = [adresses EXCEPT ![db][i] = ChangedAdress(@, kind)]
            /\ adresses'[db] # adresses[db]
    /\ hist' = [hist EXCEPT !.changes = @ + 1, !.event = "adress_change"]
    /\ obs' = [NoObs EXCEPT !.kind = "adress_change"]
    /\ EnvFrame
    /\ UNCHANGED <<state, now_month, data_courts, court_coordinates, lawsuits, clients,
                   assignments>>


-----------------------------------------------------------------------------
(* The databases at the start *)

Court(id, name, adress, city, tier) ==
    [id |-> id, name |-> name, adress |-> adress, city |-> city, type_cuantity |-> tier,
     status |-> "Activo", deleted |-> FALSE, deleted_at |-> NoneNum]

\* The coordinate row the synchronizer wrote for a court when its address and
\* city were these.
Coordinate(court_id, adress, city, lat, lng) ==
    [court_id |-> court_id, latitude |-> lat, longitude |-> lng,
     geocoded_address |-> <<adress, city>>,
     data_hash |-> calculate_court_hash(court_id, adress, city), deleted |-> FALSE,
     deleted_at |-> NoneNum]

\* A time before the history begins.
Yesterday == 0 - 2

\* The row of a coordinate that was soft-deleted before the history begins.
Deleted(cc) == [cc EXCEPT !.deleted = TRUE, !.deleted_at = Yesterday]

Lawsuit(id, client_id, tier) ==
    [id |-> id, client_id |-> client_id, type_quantity |-> tier,
     lawsuit_status |-> "Pendiente", deleted |-> FALSE]

Client(id) == [id |-> id, identification |-> id + 1000, deleted |-> FALSE]

Adress(id, client_id, adress, city) ==
    [id |-> id, client_id |-> client_id, adress |-> adress, neighborhood |-> NULL,
     city |-> city, department |-> "dep", is_active |-> TRUE, deleted |-> FALSE]

VariantGroups == << <<<<"B", "á">>, <<"B", "A", "D">>>> >>

\* The state after construction: no bot_state.json yet, nothing assigned, no
\* run in progress; limits, collation, tables and the services' fixed answers
\* (NoRow where the services may answer anything each time) as given.
InitWith(limits, collations, oracles, courts, coords, ls, cs, as) ==
    /\ now_month = 1
    /\ state = InitialState(1)
    /\ api_limits \in limits
    /\ city_variants = VariantGroups
    /\ collation \in collations
    /\ data_courts = courts
    /\ court_coordinates = coords
    /\ lawsuits = ls
    /\ clients = cs
    /\ adresses = as
    /\ assignments = [db \in DBs |-> <<>>]
    /\ run = [p \in Procs |-> IdleRun]
    /\ oracle \in oracles
    /\ obs = NoObs
    /\ hist = [dispatched_today |-> 0, dispatched_month |-> 0, runs |-> 0, env |-> 0,
               changes |-> 0, stopped |-> FALSE,
               event |-> NULL, before |-> [db \in DBs |-> <<>>],
               evaluated |-> [db \in DBs |-> <<>>]]

\* Two databases.  In the first, a court with its coordinate, a court never
\* geocoded whose city is spelled with an accent and a trailing blank, and a
\* nearer court of another tier; a claim with an address and a claim without.  In the second, a
\* court whose address changed since it was geocoded, and a claim of a city
\* where no court sits.
TwoCourts ==
    << <<Court(1, "J1", "k1", BA, "Minima"),
         Court(2, "J2", "k2", <<"b", "Á", "d", " ">>, "Minima"),
         Court(3, "J4", "k4", BA, "Menor")>>,
       <<Court(1, "J3", "k3", CA, "Minima")>> >>
TwoCoordinates ==
    << <<Coordinate(1, "k1", BA, 3, 1), Coordinate(3, "k4", BA, 1, 1)>>,
       <<Coordinate(1, "k0", CA, 1, 1)>> >>
TwoLawsuits ==
    << <<Lawsuit(11, 1, "Minima"), Lawsuit(12, 2, "Menor")>>, <<Lawsuit(21, 1, "Minima")>> >>
TwoClients == << <<Client(1), Client(2)>>, <<Client(1)>> >>
TwoAdresses == << <<Adress(1, 1, "a1", <<"b", "a">>)>>, <<Adress(1, 1, "a2", BA)>> >>

-----------------------------------------------------------------------------
(* The governor and the tasks: sequential runs under tight limits, with the *)
(* clock, the daily reset and the operator                                 *)

DailyLimit == 4
MonthlyLimit == 6

Init ==
    InitWith({[daily |-> DailyLimit, monthly |-> MonthlyLimit]}, {"accent_insensitive"},
             {NoRow}, TwoCourts, TwoCoordinates, TwoLawsuits, TwoClients, TwoAdresses)

Next ==
    \/ \E p \in Tasks : Start(p)
    \/ \E p \in Tasks : SyncBegin(p)
    \/ \E p \in Tasks : Regeocode(p, GeoFew)
    \/ \E p \in Tasks : SyncNamesStep(p)
    \/ \E p \in Tasks : GeocodeNew(p, GeoFew)
    \/ \E p \in Tasks : SyncEnd(p)
    \/ \E p \in Tasks : AssignBegin(p)
    \/ \E p \in Tasks : AssignClaim(p, GeoFew, RouteFew)
    \/ \E p \in Tasks : AssignEnd(p)
    \/ \E p \in Tasks : Finish(p)
    \/ Tick
    \/ ResetDaily
    \/ ManualStop
    \/ ManualStart

Spec == Init /\ [][Next]_vars

-----------------------------------------------------------------------------
(* The engine and the synchronizer over changing databases: runs of the    *)
(* scheduled task, between which the registry or an address changes       *)

EngineDaily == 8
EngineMonthly == 12

\* The databases as above, but for the court of the second, whose coordinate
\* is up to date.
InitEngine ==
    InitWith({[daily |-> EngineDaily, monthly |-> EngineMonthly]},
             {"binary", "accent_insensitive"}, {NoRow},
             TwoCourts, <<TwoCoordinates[1], <<Coordinate(1, "k3", CA, 1, 1)>>>>,
             TwoLawsuits, TwoClients, TwoAdresses)

NextEngine ==
    \/ Start("scheduled")
    \/ SyncBegin("scheduled")
    \/ Regeocode("scheduled", GeoFew)
    \/ SyncNamesStep("scheduled")
    \/ GeocodeNew("scheduled", GeoFew)
    \/ SyncEnd("scheduled")
    \/ AssignBegin("scheduled")
    \/ AssignClaim("scheduled", GeoAnswers, RouteFew)
    \/ AssignEnd("scheduled")
    \/ Finish("scheduled")
    \/ CourtChange
    \/ AdressChange

SpecEngine == InitEngine /\ [][NextEngine]_vars

-----------------------------------------------------------------------------
(* The engine run twice as a script over unchanged databases, the services  *)
(* answering every request as they did before                              *)

TwiceTightDaily == 3

\* What the services answer for the claims with an address: any geocoding
\* answer, and a routing answer or a timeout.
Oracles ==
    {[geo |-> g, route |-> r] :
        g \in [{11, 21} -> GeoAnswers], r \in [{11} -> {"OK", "TIMEOUT"}]}

\* The databases as for the engine, under limits that are never reached or
\* under a daily limit that the second run reaches.
InitTwice ==
    InitWith({[daily |-> EngineDaily, monthly |-> EngineMonthly],
              [daily |-> TwiceTightDaily, monthly |-> EngineMonthly]},
             {"accent_insensitive"}, Oracles,
             TwoCourts, <<TwoCoordinates[1], <<Coordinate(1, "k3", CA, 1, 1)>>>>,
             TwoLawsuits, TwoClients, TwoAdresses)

NextTwice ==
    \/ EngineMain("engine")
    \/ AssignBegin("engine")
    \/ AssignClaimOracle("engine")
    \/ AssignEnd("engine")
    \/ EngineExit("engine")

SpecTwice == InitTwice /\ [][NextTwice]_vars

-----------------------------------------------------------------------------
(* The engine run as a script over a city of six courts, the routing       *)
(* service resolving any of the destinations or none                       *)

\* Six courts of one tier in one city, in no order of distance.
SixCourts ==
    << <<Court(1, "J1", "k1", BA, "Minima"), Court(2, "J2", "k2", BA, "Minima"),
         Court(3, "J3", "k3", BA, "Minima"), Court(4, "J4", "k4", BA, "Minima"),
         Court(5, "J5", "k5", BA, "Minima"), Court(6, "J6", "k6", BA, "Minima")>>,
       <<>> >>
SixCoordinates ==
    << <<Coordinate(1, "k1", BA, 11, 1), Coordinate(2, "k2", BA, 3, 1),
         Coordinate(3, "k3", BA, 20, 1), Coordinate(4, "k4", BA, 5, 1),
         Coordinate(5, "k5", BA, 13, 1), Coordinate(6, "k6", BA, 4, 1)>>,
       <<>> >>
OneLawsuit == << <<Lawsuit(11, 1, "Minima")>>, <<>> >>
OneClient == << <<Client(1)>>, <<>> >>
OneAdress == << <<Adress(1, 1, "a1", BA)>>, <<>> >>

\* The address is located at one end of the city or in its middle, or not at all.
GeoSel == {GeoOk(1, 1, <<>>), GeoOk(14, 1, <<>>), GeoFail("ZERO_RESULTS")}

InitSel ==
    InitWith({[daily |-> EngineDaily, monthly |-> EngineMonthly]},
             {"accent_insensitive"}, {NoRow},
             SixCourts, SixCoordinates, OneLawsuit, OneClient, OneAdress)

NextSel ==
    \/ EngineMain("engine")
    \/ AssignBegin("engine")
    \/ AssignClaim("engine", GeoSel, RouteAnswers)
    \/ AssignEnd("engine")
    \/ EngineExit("engine")

SpecSel == InitSel /\ [][NextSel]_vars

-----------------------------------------------------------------------------
(* The three entry points of a full cycle, one run at a time, under limits *)
(* that a run reaches, the operator stopping and starting the bot, the     *)
(* provider answering or reporting its quota exhausted                     *)

NextEntry ==
    \/ \E p \in Tasks : Start(p)
    \/ StartDirect("direct")
    \/ \E p \in Runners : SyncBegin(p)
    \/ \E p \in Runners : Regeocode(p, GeoEntry)
    \/ \E p \in Runners : SyncNamesStep(p)
    \/ \E p \in Runners : GeocodeNew(p, GeoEntry)
    \/ \E p \in Runners : SyncEnd(p)
    \/ \E p \in Runners : AssignBegin(p)
    \/ \E p \in Runners : AssignClaim(p, GeoEntry, RouteAnswers)
    \/ \E p \in Runners : AssignEnd(p)
    \/ \E p \in Runners : Finish(p)
    \/ \E p \in Runners : FinishFailed(p)
    \/ ManualStop
    \/ ManualStart

SpecEntry == Init /\ [][NextEntry]_vars

-----------------------------------------------------------------------------
(* The operator stopping and starting the bot while a task runs, the       *)
(* task's last status update reading the state file and writing it back    *)
(* in two steps                                                            *)

NextStop ==
    \/ \E p \in Tasks : Start(p)
    \/ \E p \in Tasks : SyncBegin(p)
    \/ \E p \in Tasks : Regeocode(p, GeoFew)
    \/ \E p \in Tasks : SyncNamesStep(p)
    \/ \E p \in Tasks : GeocodeNew(p, GeoFew)
    \/ \E p \in Tasks : SyncEnd(p)
    \/ \E p \in Tasks : AssignBegin(p)
    \/ \E p \in Tasks : AssignClaim(p, GeoFew, RouteFew)
    \/ \E p \in Tasks : AssignEnd(p)
    \/ \E p \in Tasks : FinishRead(p)
    \/ \E p \in Tasks : FinishWrite(p)
    \/ ManualStop
    \/ ManualStart

SpecStop == Init /\ [][NextStop]_vars

-----------------------------------------------------------------------------
(* The scheduled task and the requested task running at the same time on   *)
(* the same databases, the look-up of a claim's row and the write that     *)
(* follows being two statements                                            *)

InitOverlap ==
    InitWith({[daily |-> EngineDaily, monthly |-> EngineMonthly]},
             {"accent_insensitive"}, {NoRow},
             TwoCourts, TwoCoordinates, TwoLawsuits, TwoClients, TwoAdresses)

NextOverlap ==
    \/ \E p \in Tasks : StartOverlapping(p)
    \/ \E p \in Tasks : SyncBegin(p)
    \/ \E p \in Tasks : Regeocode(p, GeoFew)
    \/ \E p \in Tasks : SyncNamesStep(p)
    \/ \E p \in Tasks : GeocodeNew(p, GeoFew)
    \/ \E p \in Tasks : SyncEnd(p)
    \/ \E p \in Tasks : AssignBegin(p)
    \/ \E p \in Tasks : LookUpStep(p)
    \/ \E p \in Tasks : AssignClaim(p, GeoFew, RouteFew)
    \/ \E p \in Tasks : AssignEnd(p)
    \/ \E p \in Tasks : Finish(p)

SpecOverlap == InitOverlap /\ [][NextOverlap]_vars

-----------------------------------------------------------------------------
(* Properties of the governor and the tasks *)

QuotaMsgs == {MonthlyLimitMsg, DailyLimitMsg}

\* The counters a call left behind reach a limit.
LimitReachedAfter(call) ==
    MonthlyLimitReached(call.after_month) \/ DailyLimitReached(call.after_today)

\* C1: a geocoding or routing request is dispatched only after the governor's
\* increment returned normally; when the increment reaches a limit nothing is
\* dispatched and the quota failure leaves the step as an exception (no result
\* of "not found" is made of it: no row, no coordinate, no further call).
GovernorFirst ==
    \A i \in Idx(obs.calls) :
        LET call == obs.calls[i]
        IN  /\ call.dispatched => call.raised = NULL /\ ~LimitReachedAfter(call)
            /\ LimitReachedAfter(call) =>
                   /\ ~call.dispatched
                   /\ call.raised \in QuotaMsgs
                   /\ i = Len(obs.calls)
                   /\ obs.raised = call.raised
                   /\ obs.outcome = "raised"
                   /\ obs.row = NoRow
            /\ i = Len(obs.calls) =>
                   /\ state.api_calls_today = call.after_today
                   /\ state.api_calls_month = call.after_month

\* A claim whose geocoding request was dispatched and whose routing request the
\* governor refused.
GovernorFirstWitness ==
    /\ obs.kind = "claim"
    /\ Len(obs.calls) = 2
    /\ obs.calls[1].dispatched
    /\ obs.calls[2].raised = DailyLimitMsg
    /\ ~obs.calls[2].dispatched

\* C2: in a history of sequential runs a request is dispatched only if, after
\* its own increment, both counters are below their limits; so fewer than
\* daily_limit requests are dispatched between two daily resets and fewer than
\* monthly_limit under one month marker, whatever cleared the exceeded flag.
DispatchWithinLimits ==
    /\ hist.dispatched_today < MAX_API_CALLS_PER_DAY
    /\ hist.dispatched_month < MAX_API_CALLS_PER_MONTH
    /\ \A i \in Idx(obs.calls) :
           obs.calls[i].dispatched =>
               /\ obs.calls[i].after_today < MAX_API_CALLS_PER_DAY
               /\ obs.calls[i].after_month < MAX_API_CALLS_PER_MONTH

\* The operator's start cleared the exceeded flag, a second run began, and its
\* call is refused with the day's dispatches still one short of the limit.
DispatchWithinLimitsWitness ==
    /\ hist.event = "manual_start"
    /\ hist.runs = 2
    /\ hist.dispatched_today = MAX_API_CALLS_PER_DAY - 1
    /\ obs.calls # <<>>
    /\ obs.calls[Len(obs.calls)].raised = DailyLimitMsg
    /\ state.api_calls_today > MAX_API_CALLS_PER_DAY

\* C3: a quota failure ends the run at once, with status NO_API_CREDITS: no
\* further database is synchronized or assigned and no further call is made.
QuotaFailureEndsRun ==
    \A p \in Tasks :
        run[p].quota_hit =>
            /\ run[p].pc = "idle"
            /\ run[p].end_status = "no_api_credits"
            /\ state.status = "no_api_credits"

-----------------------------------------------------------------------------
(* Properties of the engine *)

\* The assignment row of a client, or NoRow.
RowOf(db, client_id) ==
    FetchOne(SelectSeq(assignments[db], LAMBDA r : r.client_id = client_id))

\* The court of the registry with this id, as a set of at most one row.
CourtsWithId(db, id) ==
    {data_courts[db][i] : i \in {j \in Idx(data_courts[db]) : data_courts[db][j].id = id}}

\* The claim at the head of p's queue has a row with the claim's current hash
\* and a court name that is neither null nor a sentinel.
SkipCase(p) ==
    /\ run[p].pc = "claims"
    /\ run[p].queue # <<>>
    /\ LET l == Head(run[p].queue)
           row == RowOf(run[p].db, l.client_id)
       IN  /\ IsRow(row)
           /\ row.data_hash = ClaimHash(l)
           /\ row.court_name # NULL
           /\ row.court_name \notin Sentinels

\* C5: a claim whose row holds its current hash and a real court is passed
\* over: no row is written, the governor is not asked and no request is made,
\* and the claim is counted as skipped, whatever the registry now holds.
SkipFrame ==
    [][\A p \in Procs :
          (SkipCase(p) /\ run'[p] # run[p]) =>
              /\ assignments' = assignments
              /\ state' = state
              /\ hist'.dispatched_today = hist.dispatched_today
              /\ obs'.calls = <<>>
              /\ obs'.row = NoRow
              /\ obs'.outcome = "skipped"
              /\ run'[p].queue = Tail(run[p].queue)
              /\ run'[p].stats.skipped = run[p].stats.skipped + 1]_vars

\* A claim was skipped although the registry changed since it was assigned and
\* its court is now gone, soft-deleted or inactive.
SkipFrameWitness ==
    /\ obs.kind = "claim"
    /\ obs.outcome = "skipped"
    /\ hist.event = "court_change"
    /\ LET row == RowOf(obs.db, obs.claim.client_id)
       IN  \A dc \in CourtsWithId(obs.db, row.court_id) :
               dc.deleted \/ dc.status # "Activo"

\* C6: every assignment row carries the hash of the claim last evaluated to an
\* outcome for its client, be the outcome a court or a sentinel, and every
\* client so evaluated has such a row; the propagation of court names leaves
\* the hash alone.
HashOfLastEvaluation ==
    \A db \in DBs :
        /\ \A i \in Idx(assignments[db]) :
               \E k \in Idx(hist.evaluated[db]) :
                   /\ hist.evaluated[db][k].client_id = assignments[db][i].client_id
                   /\ hist.evaluated[db][k].hash = assignments[db][i].data_hash
        /\ \A k \in Idx(hist.evaluated[db]) :
               LET row == RowOf(db, hist.evaluated[db][k].client_id)
               IN  IsRow(row) /\ row.data_hash = hist.evaluated[db][k].hash

\* The synchronizer has just copied a changed court name onto an assignment,
\* next to a row that holds a sentinel.
HashOfLastEvaluationWitness ==
    /\ obs.kind = "sync_names"
    /\ hist.event = "court_change"
    /\ \E i \in Idx(assignments[obs.db]) :
           /\ assignments[obs.db][i].court_name = "J9"
           /\ assignments[obs.db][i].data_hash # <<>>
    /\ \E i \in Idx(assignments[obs.db]) : assignments[obs.db][i].court_name \in Sentinels

\* The court is one the claim may be assigned to: active, not soft-deleted,
\* with a coordinate row that is not soft-deleted, of the claim's tier, in a
\* city that is one of the search variants of the claim's city.
Eligible(db, l, dc) ==
    /\ dc.status = "Activo"
    /\ ~dc.deleted
    /\ \E j \in Idx(court_coordinates[db]) :
           /\ court_coordinates[db][j].court_id = dc.id
           /\ ~court_coordinates[db][j].deleted
    /\ dc.type_cuantity = l.type_quantity
    /\ normalize_city(dc.city) \in get_city_search_variants(l.city, city_variants)

NoEligibleCourt(db, l) ==
    \A i \in Idx(data_courts[db]) : ~Eligible(db, l, data_courts[db][i])

\* C9: a real assignment names a court that is eligible when the claim is
\* evaluated; and when the courts of the city are looked up and none is
\* eligible, the row holds "No se encuentra juzgado en ciudad" with no court id
\* and no distance, and no routing request is made.
AssignedCourtEligible ==
    obs.kind = "claim" =>
        /\ obs.outcome = "success" =>
               \E dc \in CourtsWithId(obs.db, obs.row.court_id) :
                   /\ Eligible(obs.db, obs.claim, dc)
                   /\ obs.row.court_name = dc.name
                   /\ obs.row.distance_km # NoneNum
        /\ (obs.queried /\ NoEligibleCourt(obs.db, obs.claim)) =>
               LET row == RowOf(obs.db, obs.claim.client_id)
               IN  /\ obs.outcome \in {"no_court_in_city", "skipped_no_court"}
                   /\ row.court_name = NoJuzgadoEnCiudad
                   /\ row.court_id = NoneNum
                   /\ row.distance_km = NoneNum
                   /\ \A i \in Idx(obs.calls) : obs.calls[i].api # "route"
        /\ NoEligibleCourt(obs.db, obs.claim) => obs.outcome # "success"

\* A claim evaluated after its only eligible court left the registry's active
\* courts: the sentinel replaces the assignment, while a nearer court of
\* another tier is still there.
AssignedCourtEligibleWitness ==
    /\ obs.kind = "claim"
    /\ obs.outcome = "no_court_in_city"
    /\ obs.existed
    /\ hist.event = "court_change"
    /\ NoEligibleCourt(obs.db, obs.claim)
    /\ \E i \in Idx(data_courts[obs.db]) :
           /\ data_courts[obs.db][i].type_cuantity # obs.claim.type_quantity
           /\ normalize_city(data_courts[obs.db][i].city) = normalize_city(obs.claim.city)

\* match() of two city names: equal once normalized, or both in one configured group.
SameCity(a, b) ==
    LET na == normalize_city(a)
        nb == normalize_city(b)
        Group(g) == {normalize_city(city_variants[g][i]) : i \in Idx(city_variants[g])}
    IN  /\ na # NoCity
        /\ nb # NoCity
        /\ \/ na = nb
           \/ \E g \in Idx(city_variants) : na \in Group(g) /\ nb \in Group(g)

\* C10: when the geocoder answers with coordinates and a locality that does
\* not match the claim's city, the row written is "Dirección incorrecta o en
\* otra ciudad" with no court id and no distance, the courts are not looked up
\* and no routing request is made; a real assignment is written only after an
\* answer with no locality or with a matching one.
WrongCityGuard ==
    obs.kind = "claim" =>
        /\ (IsRow(obs.geo) /\ obs.geo.status = "OK"
            /\ TruthyCity(FoundCity(obs.geo.components))
            /\ ~SameCity(FoundCity(obs.geo.components), obs.claim.city)) =>
               /\ obs.outcome = "wrong_city"
               /\ obs.row.court_name = DireccionIncorrecta
               /\ obs.row.court_id = NoneNum
               /\ obs.row.distance_km = NoneNum
               /\ ~obs.queried
               /\ Len(obs.calls) = 1
        /\ obs.outcome = "success" =>
               /\ IsRow(obs.geo)
               /\ obs.geo.status = "OK"
               /\ \/ ~TruthyCity(FoundCity(obs.geo.components))
                  \/ SameCity(FoundCity(obs.geo.components), obs.claim.city)

\* A claim of one city geocoded into another: the sentinel is written.
WrongCityGuardWitness ==
    /\ obs.kind = "claim"
    /\ obs.outcome = "wrong_city"
    /\ FoundCity(obs.geo.components) = CA
    /\ RowOf(obs.db, obs.claim.client_id).court_name = DireccionIncorrecta

-----------------------------------------------------------------------------
(* Properties of two runs of the engine over unchanged databases *)

\* The columns of a row but for the time of its last UPDATE.
Columns(row) == [row EXCEPT !.updated_at = NoneNum]

\* The table holds the same rows as before, updated_at aside.
SameRows(rows, before) ==
    /\ Len(rows) = Len(before)
    /\ \A i \in Idx(rows) : Columns(rows[i]) = Columns(before[i])

\* The pending claims of the database whose row, as the run found it, held a
\* real assignment or "No se encuentra juzgado en ciudad".
SettledBefore(db) ==
    {i \in Idx(PendingLawsuits(db, NoneNum)) :
        \E k \in Idx(hist.before[db]) :
            /\ hist.before[db][k].client_id = PendingLawsuits(db, NoneNum)[i].client_id
            /\ hist.before[db][k].court_name \notin
                   {SinDireccion, ErrorGeocodificacion, DireccionIncorrecta}}

\* The second run has ended its pass over a database.
SecondPassEnded == hist.runs = 2 /\ obs.kind = "assign_end" /\ obs.proc = "engine"

\* C4, as stated: after the second run's pass over a database every row is
\* identical and every claim iterated was skipped.
IdempotentAllSkipped ==
    SecondPassEnded =>
        /\ assignments[obs.db] = hist.before[obs.db]
        /\ obs.stats.skipped = obs.stats.total_procesados

\* C4, amended: with one pending claim per client, at every moment of the
\* second run the rows are those the first run left, the time of their last
\* UPDATE aside; and when the second run ends its pass over a database, the
\* claims it skipped are those whose row held a real assignment or "No se
\* encuentra juzgado en ciudad": a claim whose row held one of the other three
\* sentinels was evaluated in full and its row written again.
IdempotentSecondRun ==
    hist.runs = 2 =>
        /\ \A db \in DBs : SameRows(assignments[db], hist.before[db])
        /\ SecondPassEnded =>
               /\ obs.stats.total_procesados = Len(PendingLawsuits(obs.db, NoneNum))
               /\ obs.stats.skipped = Cardinality(SettledBefore(obs.db))
               /\ obs.stats.updated = obs.stats.total_procesados - obs.stats.skipped
               /\ obs.stats.inserted = 0

\* The second run has ended its pass over a database where it skipped an
\* assigned claim and wrote the row of a claim without address again.
IdempotentSecondRunWitness ==
    /\ SecondPassEnded
    /\ obs.stats.skipped = 1
    /\ obs.stats.total_procesados = 2
    /\ obs.stats.no_address = 1
    /\ SameRows(assignments[obs.db], hist.before[obs.db])
    /\ assignments[obs.db] # hist.before[obs.db]

-----------------------------------------------------------------------------
(* Properties of the selection among the candidates *)

\* The coordinate rows of the courts the claim may be assigned to.
EligibleCoordinates(db, l) ==
    {j \in Idx(court_coordinates[db]) :
        /\ ~court_coordinates[db][j].deleted
        /\ \E dc \in CourtsWithId(db, court_coordinates[db][j].court_id) :
               Eligible(db, l, dc)}

\* The straight-line distance from the geocoded address to a coordinate row.
StraightTo(db, j) ==
    Abs(obs.geo.lat - court_coordinates[db][j].latitude)
    + Abs(obs.geo.lng - court_coordinates[db][j].longitude)

\* The destinations of the routing request are the (up to 5) eligible courts
\* nearest in a straight line, nearest first.
NearestWereRouted ==
    LET db == obs.db
        el == EligibleCoordinates(db, obs.claim)
        d == obs.destinations
    IN  /\ Len(d) = Min(5, Cardinality(el))
        /\ \A i \in Idx(d) : \E j \in el :
               /\ court_coordinates[db][j].court_id = d[i].court_id
               /\ StraightTo(db, j) = d[i].straight_distance
        /\ \A i \in Idx(d) : \A k \in Idx(d) :
               i < k => d[i].straight_distance <= d[k].straight_distance
        /\ \A j \in el :
               \/ \E i \in Idx(d) : d[i].court_id = court_coordinates[db][j].court_id
               \/ \A i \in Idx(d) : d[i].straight_distance <= StraightTo(db, j)

\* The destinations the routing service resolved in its answer.
ResolvedDestinations ==
    IF IsRow(obs.route) /\ obs.route.status = "OK"
    THEN {i \in Idx(obs.destinations) :
             i <= Len(obs.route.elements) /\ obs.route.elements[i].status = "OK"}
    ELSE {}

\* The routing service was asked about the claim and answered.
RouteAnswered == obs.kind = "claim" /\ obs.raised = NULL /\ IsRow(obs.route)

\* C7: when the routing service resolves at least one of the destinations,
\* which are the up to 5 eligible courts nearest in a straight line, the row
\* persisted names a resolved destination whose routed distance is the least
\* of the resolved ones, with that routed distance in kilometres.
RoutedMinimum ==
    (RouteAnswered /\ ResolvedDestinations # {}) =>
        LET row == RowOf(obs.db, obs.claim.client_id)
        IN  /\ NearestWereRouted
            /\ obs.outcome = "success"
            /\ Columns(row) = Columns(obs.row)
            /\ \E i \in ResolvedDestinations :
                   /\ row.court_id = obs.destinations[i].court_id
                   /\ row.court_name = obs.destinations[i].court_name
                   /\ row.distance_km * 1000 = obs.route.elements[i].value
                   /\ \A k \in ResolvedDestinations :
                          obs.route.elements[i].value <= obs.route.elements[k].value

\* Five destinations at 2, 3, 4, 10 and 12 km in a straight line, of which
\* the second and the fourth alone were resolved, at 5 km and 1 km by road: the
\* fourth is persisted with 1 km.
RoutedMinimumWitness ==
    /\ RouteAnswered
    /\ [i \in Idx(obs.destinations) |-> obs.destinations[i].straight_distance]
           = <<2, 3, 4, 10, 12>>
    /\ obs.route.status = "OK"
    /\ obs.route.elements =
           <<RouteNotFound, RouteOk(5000), RouteNotFound, RouteOk(1000), RouteNotFound>>
    /\ RowOf(obs.db, obs.claim.client_id).court_id = obs.destinations[4].court_id
    /\ RowOf(obs.db, obs.claim.client_id).distance_km = 1

\* C8: when the routing service answers with an error status or not at all,
\* or resolves none of the destinations, the row persisted names the eligible
\* court nearest in a straight line with its straight-line distance: a real
\* assignment, not a sentinel.
StraightLineFallback ==
    (RouteAnswered /\ ResolvedDestinations = {}) =>
        LET db == obs.db
            row == RowOf(db, obs.claim.client_id)
        IN  /\ obs.outcome = "success"
            /\ Columns(row) = Columns(obs.row)
            /\ row.court_name \notin Sentinels
            /\ row.court_name # NULL
            /\ \E j \in EligibleCoordinates(db, obs.claim) :
                   /\ row.court_id = court_coordinates[db][j].court_id
                   /\ row.court_name = CourtOf(db, row.court_id).name
                   /\ row.distance_km = StraightTo(db, j)
                   /\ \A k \in EligibleCoordinates(db, obs.claim) :
                          StraightTo(db, j) <= StraightTo(db, k)

\* The routing service answered OK and resolved none of five destinations:
\* the court 2 km away in a straight line is persisted with 2 km, though it is
\* not the first court of the registry.
StraightLineFallbackWitness ==
    /\ RouteAnswered
    /\ obs.route.status = "OK"
    /\ Len(obs.destinations) = 5
    /\ ResolvedDestinations = {}
    /\ RowOf(obs.db, obs.claim.client_id).distance_km = 2
    /\ RowOf(obs.db, obs.claim.client_id).court_id = 2
    /\ data_courts[obs.db][1].id # 2

-----------------------------------------------------------------------------
(* Properties of the claims without address *)

\* The claim at the head of p's queue lacks its street or its city.
NoAddressCase(p) ==
    /\ run[p].pc = "claims"
    /\ run[p].queue # <<>>
    /\ \/ Head(run[p].queue).adress \in {NULL, ""}
       \/ Head(run[p].queue).city \in {NoCity, <<>>}

\* C11: a claim that lacks its street or its city gets exactly one write, of
\* the row "Sin dirección" with no court id, no distance and the claim's
\* current hash, inserted or updated; the governor is not asked and no request
\* is made.
NoAddressSentinel ==
    [][\A p \in Procs :
          (NoAddressCase(p) /\ run'[p] # run[p]) =>
              LET l == Head(run[p].queue)
                  db == run[p].db
                  mine(rows) == SelectSeq(rows, LAMBDA r : r.client_id = l.client_id)
                  others(rows) == SelectSeq(rows, LAMBDA r : r.client_id # l.client_id)
              IN  /\ state' = state
                  /\ obs'.calls = <<>>
                  /\ hist'.dispatched_today = hist.dispatched_today
                  /\ obs'.outcome = "no_address"
                  /\ Len(mine(assignments'[db])) = 1
                  /\ mine(assignments'[db])[1].court_name = SinDireccion
                  /\ mine(assignments'[db])[1].court_id = NoneNum
                  /\ mine(assignments'[db])[1].distance_km = NoneNum
                  /\ mine(assignments'[db])[1].data_hash =
                         calculate_client_hash(l.lawsuit_id, l.adress, l.neighborhood,
                                               l.city, l.department, l.type_quantity)
                  /\ others(assignments'[db]) = others(assignments[db])
                  /\ run'[p].stats.updated + run'[p].stats.inserted =
                         run[p].stats.updated + run[p].stats.inserted + 1
                  /\ run'[p].stats.no_address = run[p].stats.no_address + 1]_vars

\* A claim that was assigned a court and whose address has since lost its
\* city, the street remaining: the assignment gives way to "Sin dirección".
NoAddressSentinelWitness ==
    /\ obs.kind = "claim"
    /\ obs.outcome = "no_address"
    /\ obs.existed
    /\ hist.event = "adress_change"
    /\ obs.claim.adress = "a1"
    /\ obs.claim.city = NoCity
    /\ RowOf(obs.db, obs.claim.client_id).court_name = SinDireccion
    /\ RowOf(obs.db, obs.claim.client_id).client_city = NotAvailable

-----------------------------------------------------------------------------
(* Properties of the claims whose city had no court *)

\* The claim at the head of p's queue has the row "No se encuentra juzgado en
\* ciudad" with the claim's current hash.
NoCourtCase(p) ==
    /\ run[p].pc = "claims"
    /\ run[p].queue # <<>>
    /\ LET l == Head(run[p].queue)
           row == RowOf(run[p].db, l.client_id)
       IN  /\ IsRow(row)
           /\ row.court_name = NoJuzgadoEnCiudad
           /\ row.data_hash =
                  calculate_client_hash(l.lawsuit_id, l.adress, l.neighborhood,
                                        l.city, l.department, l.type_quantity)

\* The courts the count query counts: active, not soft-deleted, with a
\* coordinate row that is not soft-deleted, of the claim's tier, whose city the
\* database finds equal to one of the search variants of the claim's city.
CountedCourts(db, l) ==
    {i \in Idx(data_courts[db]) :
        /\ data_courts[db][i].status = "Activo"
        /\ ~data_courts[db][i].deleted
        /\ \E j \in Idx(court_coordinates[db]) :
               /\ court_coordinates[db][j].court_id = data_courts[db][i].id
               /\ ~court_coordinates[db][j].deleted
        /\ data_courts[db][i].type_cuantity = l.type_quantity
        /\ \E v \in get_city_search_variants(l.city, city_variants) :
               SqlCityEquals(data_courts[db][i].city, v)}

\* C12: for a claim whose row is "No se encuentra juzgado en ciudad" with an
\* unchanged hash: while the count of courts is zero the claim is passed over,
\* with no write and no call; once it is not zero the claim is evaluated again,
\* starting with the geocoding call, its row is updated in place, and the row
\* names a court when the geocoder answers with coordinates and a locality
\* that is absent or matches the claim's city.
NoCourtRetry ==
    [][\A p \in Procs :
          (NoCourtCase(p) /\ run'[p] # run[p]) =>
              LET l == Head(run[p].queue)
                  db == run[p].db
                  mine(rows) == SelectSeq(rows, LAMBDA r : r.client_id = l.client_id)
              IN  IF CountedCourts(db, l) = {}
                  THEN /\ assignments' = assignments
                       /\ state' = state
                       /\ obs'.calls = <<>>
                       /\ obs'.row = NoRow
                       /\ obs'.outcome = "skipped_no_court"
                       /\ run'[p].stats.skipped = run[p].stats.skipped + 1
                  ELSE /\ obs'.calls # <<>>
                       /\ obs'.calls[1].api = "geocode"
                       /\ obs'.calls[1].dispatched
                       /\ obs'.raised = NULL
                       /\ Len(assignments'[db]) = Len(assignments[db])
                       /\ mine(assignments'[db]) # mine(assignments[db])
                       /\ Len(mine(assignments'[db])) = 1
                       /\ run'[p].stats.updated = run[p].stats.updated + 1
                       /\ (/\ obs'.geo.status = "OK"
                           /\ \/ FoundCity(obs'.geo.components) = NoCity
                              \/ SameCity(FoundCity(obs'.geo.components), l.city))
                          => /\ mine(assignments'[db])[1].court_name \notin Sentinels
                             /\ mine(assignments'[db])[1].court_id # NoneNum
                             /\ obs'.outcome = "success"]_vars

\* A claim that had found no court in its city is evaluated again in a later
\* run, a court of its city being back in the registry, and is assigned it;
\* neither the claim nor its address has changed in between.
NoCourtRetryWitness ==
    /\ obs.kind = "claim"
    /\ obs.outcome = "success"
    /\ obs.existed
    /\ hist.event = "court_change"
    /\ obs.existing.court_name = NoJuzgadoEnCiudad
    /\ obs.existing.data_hash = ClaimHash(obs.claim)
    /\ RowOf(obs.db, obs.claim.client_id).court_id # NoneNum
    /\ RowOf(obs.db, obs.claim.client_id).updated_at = NOW

-----------------------------------------------------------------------------
(* Properties of overlapping runs *)

\* C13: whatever runs of the engine have taken place on a database, the
\* scheduled one and a requested one overlapping or not, the table holds at
\* most one assignment row for each client.
OneRowPerClient ==
    \A db \in DBs : \A i, j \in Idx(assignments[db]) :
        assignments[db][i].client_id = assignments[db][j].client_id => i = j

-----------------------------------------------------------------------------
(* Properties of the entry points *)

\* C14: a run of the scheduled task, of the requested task or of the full
\* cycle called directly begins only while neither the manual stop nor the
\* quota flag is set, and begins by setting the status RUNNING; an entry while
\* one of the flags is set ends at once: the state on file with its status and
\* counters, the coordinates and the assignments are left as they are, no
\* step of the run follows and no request is made.
CanRunFirst ==
    [][\A p \in Runners :
          (run[p].pc = "idle" /\ (run'[p] # run[p] \/ (obs'.kind = "start" /\ obs'.proc = p))) =>
              IF state.is_manual_stopped \/ state.api_quota_exceeded
              THEN /\ state' = state
                   /\ run'[p].pc = "idle"
                   /\ run'[p].end_status \in {"skipped", "refused"}
                   /\ court_coordinates' = court_coordinates
                   /\ assignments' = assignments
                   /\ obs'.calls = <<>>
                   /\ hist'.dispatched_today = hist.dispatched_today
                   /\ hist'.dispatched_month = hist.dispatched_month
              ELSE /\ run'[p].pc = "sync"
                   /\ state'.status = "running"]_vars

\* The full cycle was called directly after a run had set the quota flag, and
\* raised the reason without starting.
CanRunFirstWitness ==
    /\ obs.kind = "start"
    /\ obs.proc = "direct"
    /\ run["direct"].end_status = "refused"
    /\ state.api_quota_exceeded
    /\ ~state.is_manual_stopped
    /\ state.status # "running"

-----------------------------------------------------------------------------
(* Properties of the manual stop *)

\* C15: from the return of a manual stop until the next manual start, the
\* bot may not run: can_run() answers no, whatever a run in progress and the
\* other updates of the state file do in between.
StopHolds == hist.stopped => ~can_run(state)[1]

-----------------------------------------------------------------------------
(* Properties of the status *)

\* C16: a run that may start sets the status RUNNING as it enters the
\* synchronizer; when its entry point returns, the status is STOPPED after a
\* normal end, ERROR with the message of the exception in last_error, or
\* NO_API_CREDITS; with no run in progress the status is not RUNNING.
StatusAfterRun ==
    [][/\ \A p \in Runners :
            /\ (run[p].pc = "idle" /\ run'[p].pc # "idle") =>
                   /\ run'[p].pc = "sync"
                   /\ state'.status = "running"
            /\ (run[p].pc # "idle" /\ run'[p].pc = "idle") =>
                   \/ /\ obs'.raised = NULL
                      /\ state'.status = "stopped"
                   \/ /\ obs'.raised # NULL
                      /\ state'.status = "error"
                      /\ state'.last_error = obs'.raised
                   \/ /\ obs'.raised # NULL
                      /\ state'.status = "no_api_credits"
       /\ (\A p \in Procs : run'[p].pc = "idle") => state'.status # "running"]_vars

\* A run ended with a failure of its statistics queries: the status is ERROR
\* and last_error holds the message.
StatusAfterRunWitness ==
    /\ obs.kind = "finish_failed"
    /\ run[obs.proc].end_status = "error"
    /\ state.status = "error"
    /\ state.last_error = "OperationalError: Can't connect to MySQL server"

-----------------------------------------------------------------------------
(* Properties of the loops over the databases *)

\* C17: an exception raised while a database is synchronized or its claims
\* are assigned is caught by the loop of that phase and noted for the run;
\* the phase goes on with the next database of the list, or ends after the
\* last one, and the task goes on: it does not end there, and neither the
\* status nor last_error is touched.
DbFaultBoundary ==
    [][\A p \in Tasks :
          (/\ obs'.proc = p
           /\ obs'.kind \in {"regeocode", "geocode_new", "claim"}
           /\ obs'.raised # NULL
           /\ run'[p] # run[p]) =>
              LET db == run[p].db
                  phase == IF obs'.kind = "claim" THEN "assign" ELSE "sync"
                  after == IF obs'.kind = "claim" THEN "finish" ELSE "assign"
              IN  /\ obs'.db = db
                  /\ run'[p].raised
                  /\ IF db < Len(DB_NAMES)
                     THEN run'[p].pc = phase /\ run'[p].db = db + 1
                     ELSE run'[p].pc = after /\ run'[p].db = 1
                  /\ run'[p].end_status = NULL
                  /\ state'.status = state.status
                  /\ state'.last_error = state.last_error]_vars

\* After an exception in the first database, the claims of the second were
\* fetched and its first claim is about to be evaluated.
DbFaultBoundaryWitness ==
    \E p \in Tasks :
        /\ run[p].raised
        /\ obs.kind = "assign_begin"
        /\ obs.proc = p
        /\ obs.db = 2
        /\ run[p].pc = "claims"
        /\ run[p].queue # <<>>
        /\ state.api_quota_exceeded

-----------------------------------------------------------------------------
(* Properties of the counters *)

\* C18: when the increment brings the monthly counter to the monthly limit
\* or beyond and the daily counter to the daily limit or beyond, the call is
\* refused with the message of the monthly limit, not of the daily one; no
\* request is sent, the quota flag is set, and the state on file holds the
\* counters as incremented.
MonthlyFirst ==
    [][\A i \in Idx(obs'.calls) :
          (/\ obs'.calls[i].after_month >= api_limits.monthly
           /\ obs'.calls[i].after_today >= api_limits.daily) =>
              /\ obs'.calls[i].raised = MonthlyLimitMsg
              /\ obs'.calls[i].raised # DailyLimitMsg
              /\ ~obs'.calls[i].dispatched
              /\ i = Len(obs'.calls)
              /\ obs'.raised = MonthlyLimitMsg
              /\ state'.api_quota_exceeded
              /\ state'.api_calls_month = obs'.calls[i].after_month
              /\ state'.api_calls_today = obs'.calls[i].after_today
              /\ state'.api_calls_month = state.api_calls_month + Len(obs'.calls)
                 \/ state.current_month # now_month]_vars

\* A call brought the monthly counter exactly to the monthly limit on a day
\* whose own limit had been passed, and was refused for the month.
MonthlyFirstWitness ==
    /\ obs.calls # <<>>
    /\ obs.calls[Len(obs.calls)].after_month = api_limits.monthly
    /\ obs.calls[Len(obs.calls)].after_today >= api_limits.daily
    /\ obs.raised = MonthlyLimitMsg
    /\ state.api_calls_month = api_limits.monthly
    /\ state.api_quota_exceeded

\* C19: a call made when the month on file is not the current month counts
\* as the first of the new month: the monthly counter restarts from 0 and the
\* quota flag is cleared before the call is counted, the month on file
\* becomes the current one, and the daily counter goes on from where it was;
\* after a call that is let through the monthly counter is 1 and the flag is
\* clear.
RolloverBeforeCount ==
    [][(obs'.calls # <<>> /\ state.current_month # now_month) =>
          /\ obs'.calls[1].after_month = 1
          /\ obs'.calls[1].after_today = state.api_calls_today + 1
          /\ state'.current_month = now_month
          /\ state'.api_calls_today = state.api_calls_today + Len(obs'.calls)
          /\ state'.api_calls_month = Len(obs'.calls)
          /\ state'.api_quota_exceeded = (obs'.calls[Len(obs'.calls)].raised # NULL)
          /\ (obs'.calls[1].dispatched /\ Len(obs'.calls) = 1) =>
                 /\ state'.api_calls_month = 1
                 /\ ~state'.api_quota_exceeded]_vars

\* The first call of a new month was let through on a day that had already
\* seen calls: the monthly counter is 1, the daily counter is not.
RolloverBeforeCountWitness ==
    /\ Len(obs.calls) = 1
    /\ obs.calls[1].dispatched
    /\ obs.calls[1].after_month = 1
    /\ obs.calls[1].after_today > 1
    /\ hist.dispatched_month = 1
    /\ state.current_month = now_month
    /\ state.current_month # 1
    /\ state.api_calls_month = 1
    /\ state.api_calls_today > 1
    /\ ~state.api_quota_exceeded

-----------------------------------------------------------------------------
(* Properties of the provider's quota *)

\* C20: when the geocoding or the routing service has answered a request of
\* a run with the status OVER_QUERY_LIMIT, the run ends with the status
\* NO_API_CREDITS and the quota flag set.
ProviderQuotaEndsRun ==
    [][\A p \in Runners :
          (run[p].provider_quota /\ run[p].pc # "idle" /\ run'[p].pc = "idle") =>
              /\ state'.status = "no_api_credits"
              /\ state'.api_quota_exceeded]_vars

-----------------------------------------------------------------------------
(* The synchronizer under tight limits: in the first database one court   *)
(* has moved since it was geocoded and one was never geocoded; in the      *)
(* second the court, restored after a soft delete, has moved as well.  The *)
(* first claim of the first database has no address, the second has one.   *)

SyncCoordinates ==
    << <<Coordinate(1, "k0", BA, 3, 1), Coordinate(3, "k4", BA, 1, 1)>>,
       <<Deleted(Coordinate(1, "k0", CA, 1, 1))>> >>

SyncAdresses == << <<Adress(1, 2, "a1", <<"b", "a">>)>>, <<Adress(1, 1, "a2", BA)>> >>

InitSync ==
    InitWith({[daily |-> DailyLimit, monthly |-> MonthlyLimit]}, {"accent_insensitive"},
             {NoRow}, TwoCourts, SyncCoordinates, TwoLawsuits, TwoClients, SyncAdresses)

NextSync ==
    \/ Start("scheduled")
    \/ SyncBegin("scheduled")
    \/ Regeocode("scheduled", GeoFew)
    \/ SyncNamesStep("scheduled")
    \/ GeocodeNew("scheduled", GeoFew)
    \/ SyncEnd("scheduled")
    \/ AssignBegin("scheduled")
    \/ AssignClaim("scheduled", {GeoOk(1, 1, <<>>)}, RouteFew)
    \/ AssignEnd("scheduled")
    \/ Finish("scheduled")
    \/ CourtChange
    \/ ResetDaily
    \/ ManualStart

SpecSync == InitSync /\ [][NextSync]_vars

-----------------------------------------------------------------------------
(* Properties of the Court Coordinate Synchronizer *)

\* The coordinate rows of one court, soft-deleted or not.
CoordinatesOf(db, id) ==
    {i \in Idx(court_coordinates[db]) : court_coordinates[db][i].court_id = id}

\* C21, the safety half: whatever runs have taken place, the scheduled one and
\* a requested one overlapping or not, no court ever has more than one
\* coordinate row.
OneCoordinatePerCourt ==
    \A db \in DBs : \A i \in Idx(data_courts[db]) :
        Cardinality(CoordinatesOf(db, data_courts[db][i].id)) <= 1

\* C21, the liveness half, is checked on runs of the scheduled task that go
\* on for ever: the beat schedule (celery_app.py) keeps triggering the task
\* and the daily reset, a started run executes to its end, and the geocoder,
\* asked again and again for a court, answers with coordinates in the end.

\* The second database's court was soft-deleted and has been restored: its
\* coordinate row still carries the marker.
LiveCoordinates ==
    << TwoCoordinates[1],
       <<Deleted(Coordinate(1, "k3", CA, 1, 1))>> >>

\* One pending claim, which has no address: the engine asks nothing for it.
LiveLawsuits == << <<Lawsuit(12, 2, "Menor")>>, <<>> >>

InitLive ==
    InitWith({[daily |-> DailyLimit, monthly |-> MonthlyLimit]}, {"accent_insensitive"},
             {NoRow}, TwoCourts, LiveCoordinates, LiveLawsuits, TwoClients, TwoAdresses)

\* The counts of runs and of outside events are those of the stretch of time
\* under observation: between two runs the observation starts anew.
NewWindow ==
    /\ \A q \in Procs : run[q].pc = "idle"
    /\ hist.runs = MaxRuns \/ hist.env = MaxEnv
    /\ hist' = [hist EXCEPT !.runs = 0, !.env = 0]
    /\ obs' = [NoObs EXCEPT !.kind = "new_window"]
    /\ UNCHANGED <<state, now_month, api_limits, city_variants, collation, oracle, run,
                   data_courts, court_coordinates, lawsuits, clients, adresses,
                   assignments>>

\* The governor only tests whether the month differs from the one it has on
\* file, so the months are followed one ahead of the governor at most: the
\* month changes once the governor has seen the current one, and after the
\* last month of the calendar comes the first.
TickLive == state.current_month = now_month /\ Tick
NewYear ==
    /\ hist.env < MaxEnv
    /\ state.current_month = now_month
    /\ now_month = MaxMonth
    /\ now_month' = 1
    /\ hist' = [hist EXCEPT !.env = @ + 1, !.event = "tick"]
    /\ obs' = [NoObs EXCEPT !.kind = "tick"]
    /\ EnvFrame
    /\ UNCHANGED <<state, data_courts, court_coordinates, lawsuits, clients, adresses,
                   assignments>>

\* The monthly counter goes on counting refused calls; within a month runs are
\* followed until it has passed the limit by LiveExcess.
LiveExcess == 1
StartLive ==
    /\ \/ state.api_calls_month < api_limits.monthly + LiveExcess
       \/ state.current_month # now_month
    /\ Start("scheduled")

\* One step of a run in progress.
RunStepLive ==
    \/ SyncBegin("scheduled")
    \/ Regeocode("scheduled", GeoFew)
    \/ SyncNamesStep("scheduled")
    \/ GeocodeNew("scheduled", GeoFew)
    \/ SyncEnd("scheduled")
    \/ AssignBegin("scheduled")
    \/ AssignEnd("scheduled")
    \/ Finish("scheduled")

\* One claim of a run in progress is evaluated; the step can be taken exactly
\* when a claim is waiting.
RouteLive(n) == {[status |-> "OK", elements |-> [i \in 1..n |-> RouteOk(1000)]]}
ClaimStepLive == AssignClaim("scheduled", {GeoOk(1, 1, <<>>)}, RouteLive)
ClaimWaiting == run["scheduled"].pc = "claims" /\ run["scheduled"].queue # <<>>

\* The geocoder answers with coordinates for the new court at the head of the
\* queue of database db.
GeocodedNew(db) ==
    /\ run["scheduled"].db = db
    /\ GeocodeNew("scheduled", {GeoOk(1, 1, <<>>)})
    /\ obs'.outcome = "geocoded"

NextLive ==
    \/ StartLive
    \/ RunStepLive
    \/ ClaimStepLive
    \/ ResetDaily
    \/ TickLive
    \/ NewYear
    \/ NewWindow

SpecLive ==
    /\ InitLive /\ [][NextLive]_vars
    /\ WF_vars(StartLive) /\ WF_vars(RunStepLive) /\ WF_vars(NewWindow)
    /\ []<>~ClaimWaiting
    /\ SF_vars(ResetDaily)
    /\ \A db \in DBs : SF_vars(GeocodedNew(db))

\* The governor would let a call through now.
QuotaOpen == increment_api_calls(state, now_month).raised = NULL

\* The court is in the registry, active and not soft-deleted.
ActiveCourt(db, id) ==
    \E i \in Idx(data_courts[db]) :
        /\ data_courts[db][i].id = id
        /\ data_courts[db][i].status = "Activo"
        /\ ~data_courts[db][i].deleted

\* The court has exactly one coordinate row that is not soft-deleted.
OneLiveCoordinate(db, id) ==
    Cardinality({i \in CoordinatesOf(db, id) : ~court_coordinates[db][i].deleted}) = 1

\* C21, the liveness half: while runs keep being triggered, the geocoder
\* succeeds in the end and the quota keeps coming back, every court that stays
\* active and not soft-deleted has, from some moment on, exactly one
\* coordinate row that is not soft-deleted.
EventuallyOneCoordinate ==
    \A db \in DBs : \A i \in Idx(TwoCourts[db]) :
        ([]<>QuotaOpen /\ []ActiveCourt(db, TwoCourts[db][i].id))
            => <>[]OneLiveCoordinate(db, TwoCourts[db][i].id)

\* The step ends the synchronisation of a database by p: its summary is
\* reached, or the governor refused a call.
SyncCompleted(p) == obs'.kind = "sync_end" /\ obs'.proc = p
SyncRefused(p) ==
    obs'.kind \in {"regeocode", "geocode_new"} /\ obs'.proc = p /\ obs'.raised # NULL
SyncGeocodes(p) == obs'.kind \in {"regeocode", "geocode_new"} /\ obs'.proc = p

\* C22 as stated: in every synchronisation of a database, cut short by the
\* governor or not, the number of geocoding calls attempted (the refused one
\* counted) equals the number of courts that were due when it began.
SyncCallsEqualDue ==
    [][\A p \in Tasks :
          (SyncCompleted(p) \/ SyncRefused(p)) => run'[p].asked = run'[p].due]_vars

\* C22, amended: each geocoding step of the synchronizer makes one call, for a
\* court that is due; a synchronisation that reaches its summary has
\* attempted as many calls as courts were due when it began, one that the
\* governor cuts short at most as many; and when every call of a completed
\* synchronisation gave coordinates, no court of the database is due any more,
\* while a synchronisation that begins with no court due has nothing to ask.
SyncCallsAsDue ==
    [][\A p \in Tasks :
          /\ SyncGeocodes(p) =>
                /\ Len(obs'.calls) = 1
                /\ \E i \in DueCourts(run[p].db) :
                      data_courts[run[p].db][i].id = Head(run[p].queue).id
          /\ SyncCompleted(p) => run'[p].asked = run'[p].due
          /\ SyncRefused(p) => run'[p].asked <= run'[p].due
          /\ (SyncCompleted(p) /\ run'[p].located = run'[p].due) =>
                DueCourts(run[p].db) = {}
          /\ (obs'.kind = "sync_begin" /\ obs'.proc = p /\ DueCourts(run[p].db) = {}) =>
                /\ run'[p].queue = <<>>
                /\ NewCourts(run[p].db, court_coordinates'[run[p].db]) = <<>>]_vars

\* The governor has refused a call of a synchronisation for which more courts
\* were due than calls were attempted.
SyncCallsAsDueWitness ==
    /\ obs.kind \in {"regeocode", "geocode_new"}
    /\ obs.raised # NULL
    /\ run["scheduled"].asked < run["scheduled"].due

-----------------------------------------------------------------------------
(* Properties of the engine's writes *)

\* The step is p's evaluation of a claim that an exception cut short.
ClaimAborted(p) == obs'.kind = "claim" /\ obs'.proc = p /\ obs'.raised # NULL

\* C23: between two claims nothing the engine wrote is left uncommitted, and
\* when the processing of a database is cut short at a claim, the rows written
\* for the claims before it in that run are in the table as they were written.
WritesSurviveAbort ==
    [][\A p \in Tasks :
          /\ run'[p].pc = "claims" => run'[p].tx = <<>>
          /\ ClaimAborted(p) =>
                \A i \in Idx(run[p].written) :
                    \E j \in Idx(assignments'[run[p].db]) :
                        assignments'[run[p].db][j] = run[p].written[i]]_vars

\* The processing of a database has been cut short after a row was written.
WritesSurviveAbortWitness ==
    /\ obs.kind = "claim"
    /\ obs.raised # NULL
    /\ run["scheduled"].written # <<>>

-----------------------------------------------------------------------------
(* Properties of the recoverable outcomes *)

\* What the last step, the evaluation of a claim, met with: the claim lacks
\* its street or its city; the geocoder answered without coordinates; it
\* answered with a city that is not the client's; the candidate query found no
\* court; the routing service answered and resolved no destination.  (A city
\* that is all blanks has no search variant: the candidate query built for it
\* is not valid SQL, which is an error of the database and not an empty
\* result.)
ClaimMissingAddress ==
    obs.kind = "claim" /\ (~Truthy(obs.claim.adress) \/ ~TruthyCity(obs.claim.city))
ClaimGeoLocated ==
    /\ obs.kind = "claim" /\ IsRow(obs.geo)
    /\ obs.geo.status = "OK" /\ TruthyNum(obs.geo.lat) /\ TruthyNum(obs.geo.lng)
ClaimGeoFailed == obs.kind = "claim" /\ IsRow(obs.geo) /\ ~ClaimGeoLocated
ClaimWrongCity ==
    /\ ClaimGeoLocated
    /\ TruthyCity(FoundCity(obs.geo.components))
    /\ ~cities_match(FoundCity(obs.geo.components), obs.claim.city, city_variants)
ClaimNoCourt ==
    /\ ClaimGeoLocated /\ ~ClaimWrongCity
    /\ get_city_search_variants(obs.claim.city, city_variants) # {}
    /\ CandidateCourts(obs.db, obs.claim.type_quantity,
                       get_city_search_variants(obs.claim.city, city_variants)) = <<>>
ClaimRouteFailed ==
    obs.kind = "claim" /\ IsRow(obs.route) /\ ResolvedDestinations = {}

\* The claim's row in the table is the sentinel the engine decided on.
SentinelPersisted(msg) ==
    LET row == RowOf(obs.db, obs.claim.client_id)
    IN  /\ IsRow(row) /\ IsRow(obs.row)
        /\ Columns(row) = Columns(obs.row)
        /\ row.court_name = msg
        /\ row.court_id = NoneNum

\* The loop of the run that evaluated the claim stands at the next claim of the
\* same database.
LoopProceeds ==
    \E p \in Procs : obs.proc = p /\ run[p].pc = "claims" /\ run[p].db = obs.db

\* C24: a missing address, a geocoding failure, a wrong city, no court in the
\* city and a routing failure raise nothing out of the loop over the claims:
\* the claim's row is persisted, a sentinel or for the routing failure the
\* court nearest in a straight line, and the loop proceeds to the next claim.
RecoverableOutcomes ==
    /\ ClaimMissingAddress =>
          /\ obs.raised = NULL /\ LoopProceeds
          /\ obs.outcome \in {"no_address", "skipped", "skipped_no_address"}
          /\ obs.outcome = "no_address" => SentinelPersisted(SinDireccion)
          /\ IsRow(RowOf(obs.db, obs.claim.client_id))
    /\ ClaimGeoFailed =>
          obs.raised = NULL /\ LoopProceeds /\ SentinelPersisted(ErrorGeocodificacion)
    /\ ClaimWrongCity =>
          obs.raised = NULL /\ LoopProceeds /\ SentinelPersisted(DireccionIncorrecta)
    /\ ClaimNoCourt =>
          obs.raised = NULL /\ LoopProceeds /\ SentinelPersisted(NoJuzgadoEnCiudad)
    /\ ClaimRouteFailed =>
          LET row == RowOf(obs.db, obs.claim.client_id)
          IN  /\ obs.raised = NULL /\ LoopProceeds
              /\ IsRow(row) /\ IsRow(obs.row)
              /\ Columns(row) = Columns(obs.row)
              /\ row.court_id = obs.destinations[1].court_id
              /\ row.distance_km = obs.destinations[1].straight_distance
              /\ row.court_name \notin Sentinels

\* In one pass over a database the first claim got the sentinel of the
\* geocoding failure and the loop went on to the second.
RecoverableOutcomesWitness ==
    /\ obs.kind = "claim"
    /\ obs.claim.lawsuit_id = 12
    /\ \E i \in Idx(assignments[1]) :
          /\ assignments[1][i].lawsuit_id = 11
          /\ assignments[1][i].court_name = ErrorGeocodificacion
          /\ assignments[1][i].updated_at = NoneNum
    /\ hist.runs = 1

-----------------------------------------------------------------------------
(* The scheduled task and the requested task calling the governor at the   *)
(* same time: increment_api_calls reads bot_state.json, counts, and writes *)
(* the file back, and nothing keeps two processes from doing so together   *)

\* Metered calls a run makes at most.
RaceCalls == 4
RaceDaily == 4
RaceMonthly == 12

InitRace ==
    InitWith({[daily |-> RaceDaily, monthly |-> RaceMonthly]},
             {"accent_insensitive"}, {NoRow},
             TwoCourts, TwoCoordinates, TwoLawsuits, TwoClients, TwoAdresses)

\* The task enters: the can_run check, then status RUNNING; the run's metered
\* calls follow one after another.
RaceStart(p) ==
    /\ p \in Tasks
    /\ run[p].pc = "idle"
    /\ hist.runs < MaxRuns
    /\ IF can_run(state)[1]
       THEN /\ state' = update_status(state, "running", NULL)
            /\ run' = [run EXCEPT ![p] = [IdleRun EXCEPT !.pc = "calls"]]
       ELSE /\ UNCHANGED state
            /\ run' = [run EXCEPT ![p] = [IdleRun EXCEPT !.end_status = "skipped"]]
    /\ hist' = [hist EXCEPT !.runs = @ + 1]
    /\ obs' = [NoObs EXCEPT !.kind = "start", !.proc = p]
    /\ RunFrame
    /\ UNCHANGED <<court_coordinates, assignments>>

\* increment_api_calls, its first statement: get_state() reads the file.
GovernorRead(p) ==
    /\ p \in Tasks
    /\ run[p].pc = "calls"
    /\ run[p].asked < RaceCalls
    /\ run' = [run EXCEPT ![p].pc = "counting", ![p].held = state]
    /\ obs' = [NoObs EXCEPT !.kind = "governor_read", !.proc = p]
    /\ RunFrame
    /\ UNCHANGED <<state, court_coordinates, assignments, hist>>

\* increment_api_calls, the rest: the counters of the state that was read are
\* incremented and compared, and save_state() writes that state over the file,
\* whatever the file has become.  When the governor returns the request is
\* sent; when it raises the run makes no further call.
GovernorWrite(p) ==
    /\ p \in Tasks
    /\ run[p].pc = "counting"
    /\ \E inc \in {increment_api_calls(run[p].held, now_month)} :
         /\ state' = inc.st
         /\ run' = [run EXCEPT ![p].pc = IF inc.raised = NULL THEN "calls" ELSE "finish",
                               ![p].held = NoRow,
                               ![p].asked = @ + 1,
                               ![p].quota_hit = inc.raised # NULL]
         /\ hist' = [hist EXCEPT !.dispatched_today =
                                     IF inc.raised = NULL THEN @ + 1 ELSE @,
                                 !.dispatched_month =
                                     IF inc.raised = NULL THEN @ + 1 ELSE @]
         /\ obs' = [NoObs EXCEPT !.kind = "governor_write", !.proc = p,
                                 !.raised = inc.raised]
    /\ RunFrame
    /\ UNCHANGED <<court_coordinates, assignments>>

\* The run has no more calls to make.
RaceEnd(p) ==
    /\ p \in Tasks
    /\ run[p].pc = "calls"
    /\ run' = [run EXCEPT ![p].pc = "finish"]
    /\ obs' = [NoObs EXCEPT !.kind = "race_end", !.proc = p]
    /\ RunFrame
    /\ UNCHANGED <<state, court_coordinates, assignments, hist>>

NextRace ==
    \/ \E p \in Tasks : RaceStart(p)
    \/ \E p \in Tasks : GovernorRead(p)
    \/ \E p \in Tasks : GovernorWrite(p)
    \/ \E p \in Tasks : RaceEnd(p)
    \/ \E p \in Tasks : Finish(p)
    \/ ResetDaily

SpecRace == InitRace /\ [][NextRace]_vars

\* The runs that may have a request in flight at the same time.
RaceSlack == Cardinality(Tasks)

\* C25: with a scheduled run and a requested run at work together on the same
\* bot_state.json, the requests dispatched between two daily resets pass the
\* daily limit by a small bounded amount at most, one request in flight for each run.
OvershootBounded == hist.dispatched_today <= MAX_API_CALLS_PER_DAY + RaceSlack

-----------------------------------------------------------------------------
(* The City Name Resolver on its own: cities_match applied to two names    *)
(* under a configuration of variant groups                                 *)

\* Names as they come from the databases and from the geocoder: None, empty,
\* blank, and spellings that differ by case, accents and surrounding blanks.
MatchNames ==
    {NoCity, <<>>, <<" ">>, BA, <<"b", "á">>, <<" ", "b", "a", " ">>,
     <<"B", "A", "D">>, <<"b", "a", "d">>, CA, <<"D">>}

\* No configuration, one group, and two groups that share a name.
MatchGroups ==
    {<<>>, VariantGroups,
     << <<<<"b", "a">>, <<"B", "Á", "D">>>>, <<<<"b", "a", "d">>, <<"c", "a", " ">>>> >>}

InitMatch ==
    /\ now_month = 1
    /\ state = InitialState(1)
    /\ api_limits = [daily |-> DailyLimit, monthly |-> MonthlyLimit]
    /\ city_variants \in MatchGroups
    /\ collation = "accent_insensitive"
    /\ data_courts = [db \in DBs |-> <<>>]
    /\ court_coordinates = [db \in DBs |-> <<>>]
    /\ lawsuits = [db \in DBs |-> <<>>]
    /\ clients = [db \in DBs |-> <<>>]
    /\ adresses = [db \in DBs |-> <<>>]
    /\ assignments = [db \in DBs |-> <<>>]
    /\ run = [p \in Procs |-> IdleRun]
    /\ oracle \in [city1 : MatchNames, city2 : MatchNames]
    /\ obs = NoObs
    /\ hist = [dispatched_today |-> 0, dispatched_month |-> 0, runs |-> 0, env |-> 0,
               changes |-> 0, stopped |-> FALSE,
               event |-> NULL, before |-> [db \in DBs |-> <<>>],
               evaluated |-> [db \in DBs |-> <<>>]]

\* bool as Python prints it.
PyBool(b) == IF b THEN "True" ELSE "False"

\* cities_match(city1, city2) is called.
MatchApply ==
    /\ obs.kind = "none"
    /\ obs' = [NoObs EXCEPT !.kind = "cities_match",
                            !.outcome = PyBool(cities_match(oracle.city1, oracle.city2,
                                                            city_variants))]
    /\ UNCHANGED <<state, api_limits, now_month, city_variants, data_courts,
                   court_coordinates, lawsuits, clients, adresses, assignments, run,
                   collation, oracle, hist>>

NextMatch == MatchApply

SpecMatch == InitMatch /\ [][NextMatch]_vars

-----------------------------------------------------------------------------
(* Properties of the City Name Resolver *)

\* The name with its surrounding blanks dropped, in upper case, without
\* accents; a name that is None, empty or blank has no such form.
Folded(name) ==
    IF name = NoCity THEN NoCity
    ELSE LET t == Strip(name)
         IN  IF t = <<>> THEN NoCity
             ELSE [i \in Idx(t) |-> UnaccentChar(UpperChar(t[i]))]

\* Two names have spellings in one configured group.
ShareGroup(a, b, cfg) ==
    \E g \in Idx(cfg) : \E i, j \in Idx(cfg[g]) :
        /\ Folded(a) # NoCity
        /\ Folded(b) # NoCity
        /\ Folded(cfg[g][i]) = Folded(a)
        /\ Folded(cfg[g][j]) = Folded(b)

\* C26: under any configured groups, cities_match(a, b) is true when the two
\* names are equal once stripped, upper-cased and unaccented or when both have a
\* spelling in one common group; it is false when they differ and share no
\* group, and false when either name is None, empty or blank; the answer is
\* the same with the names exchanged, and the same for any other spelling of
\* the first name in case, accents and surrounding blanks.
MatchLaw ==
    obs.kind = "cities_match" =>
        LET a == oracle.city1
            b == oracle.city2
            empty == Folded(a) = NoCity \/ Folded(b) = NoCity
        IN  /\ empty => obs.outcome = "False"
            /\ ~empty /\ (Folded(a) = Folded(b) \/ ShareGroup(a, b, city_variants))
                  => obs.outcome = "True"
            /\ ~empty /\ Folded(a) # Folded(b) /\ ~ShareGroup(a, b, city_variants)
                  => obs.outcome = "False"
            /\ obs.outcome = PyBool(cities_match(b, a, city_variants))
            /\ \A a2 \in MatchNames :
                   Folded(a2) = Folded(a)
                       => obs.outcome = PyBool(cities_match(a2, b, city_variants))

\* Two names of different spelling matched through a group that holds them
\* in another case and with accents.
MatchLawWitness ==
    /\ obs.kind = "cities_match"
    /\ obs.outcome = "True"
    /\ oracle.city1 = <<" ", "b", "a", " ">>
    /\ oracle.city2 = <<"b", "a", "d">>
    /\ city_variants = VariantGroups

-----------------------------------------------------------------------------
(* The claim hash on its own: calculate_client_hash applied to two tuples  *)
(* that are equal or differ in one field                                   *)

\* The values of a text column: NULL, the empty string and two strings.
HashTexts == {NULL, "", "x"}
HashCities == {NoCity, <<>>, BA}
HashTuples ==
    [lawsuit_id : {11, 12}, address : HashTexts, neighborhood : HashTexts,
     city : HashCities, department : HashTexts, type_quantity : {NULL, "", "Minima"}]

\* The fields in which two tuples differ.
DifferingFields(t, u) == {f \in DOMAIN t : t[f] # u[f]}

\* The tuple itself and the tuples that differ from it in one field.
OneFieldChanged(t) ==
    {[t EXCEPT !.lawsuit_id = v] : v \in {11, 12}}
    \cup {[t EXCEPT !.address = v] : v \in HashTexts}
    \cup {[t EXCEPT !.neighborhood = v] : v \in HashTexts}
    \cup {[t EXCEPT !.city = v] : v \in HashCities}
    \cup {[t EXCEPT !.department = v] : v \in HashTexts}
    \cup {[t EXCEPT !.type_quantity = v] : v \in {NULL, "", "Minima"}}

InitHash ==
    /\ now_month = 1
    /\ state = InitialState(1)
    /\ api_limits = [daily |-> DailyLimit, monthly |-> MonthlyLimit]
    /\ city_variants = VariantGroups
    /\ collation = "accent_insensitive"
    /\ data_courts = [db \in DBs |-> <<>>]
    /\ court_coordinates = [db \in DBs |-> <<>>]
    /\ lawsuits = [db \in DBs |-> <<>>]
    /\ clients = [db \in DBs |-> <<>>]
    /\ adresses = [db \in DBs |-> <<>>]
    /\ assignments = [db \in DBs |-> <<>>]
    /\ run = [p \in Procs |-> IdleRun]
    /\ \E t \in HashTuples : oracle \in {[t1 |-> t, t2 |-> u] : u \in OneFieldChanged(t)}
    /\ obs = NoObs
    /\ hist = [dispatched_today |-> 0, dispatched_month |-> 0, runs |-> 0, env |-> 0,
               changes |-> 0, stopped |-> FALSE,
               event |-> NULL, before |-> [db \in DBs |-> <<>>],
               evaluated |-> [db \in DBs |-> <<>>]]

HashOf(t) ==
    calculate_client_hash(t.lawsuit_id, t.address, t.neighborhood, t.city, t.department,
                          t.type_quantity)

\* calculate_client_hash is called on each of the two tuples.
HashApply ==
    /\ obs.kind = "none"
    /\ obs' = [NoObs EXCEPT !.kind = "calculate_client_hash",
                            !.row = [h1 |-> HashOf(oracle.t1), h2 |-> HashOf(oracle.t2)]]
    /\ UNCHANGED <<state, api_limits, now_month, city_variants, data_courts,
                   court_coordinates, lawsuits, clients, adresses, assignments, run,
                   collation, oracle, hist>>

NextHash == HashApply

SpecHash == InitHash /\ [][NextHash]_vars

-----------------------------------------------------------------------------
(* Properties of the claim hash *)

\* C27, as claimed: equal tuples give equal hashes, and two tuples that differ
\* in exactly one field give different hashes, whatever the values, NULL and
\* the empty string included.
HashSeparatesEveryField ==
    obs.kind = "calculate_client_hash" =>
        /\ oracle.t1 = oracle.t2 => obs.row.h1 = obs.row.h2
        /\ Cardinality(DifferingFields(oracle.t1, oracle.t2)) = 1
               => obs.row.h1 # obs.row.h2

\* The text fields of a tuple: all but the claim id.
HashTextFields == {"address", "neighborhood", "city", "department", "type_quantity"}

\* The field of the tuple is NULL or empty.
Falsy(t, f) == IF f = "city" THEN ~TruthyCity(t[f]) ELSE ~Truthy(t[f])

\* C27: equal tuples give equal hashes, and two tuples that differ in exactly
\* one field give different hashes unless the field is a text field that is
\* NULL in one tuple and the empty string in the other: those two hash alike.
HashLaw ==
    obs.kind = "calculate_client_hash" =>
        /\ oracle.t1 = oracle.t2 => obs.row.h1 = obs.row.h2
        /\ \A f \in DifferingFields(oracle.t1, oracle.t2) :
               obs.row.h1 = obs.row.h2
                   <=> (f \in HashTextFields /\ Falsy(oracle.t1, f) /\ Falsy(oracle.t2, f))

\* Two tuples that differ in the tier alone, one of them with a NULL address.
HashLawWitness ==
    /\ obs.kind = "calculate_client_hash"
    /\ DifferingFields(oracle.t1, oracle.t2) = {"type_quantity"}
    /\ oracle.t1.address = NULL
    /\ oracle.t1.type_quantity = "Minima"
    /\ obs.row.h1 # obs.row.h2

-----------------------------------------------------------------------------
(* Properties of the soft-delete propagation *)

\* C28: when step 1 has run on a database, every coordinate whose court exists
\* is marked deleted exactly when its court is (its deleted_at is NULL exactly
\* when the court's is); a coordinate the step marks takes the court's
\* deleted_at, one that is marked already keeps the time it has, a
\* coordinate of a restored court is revived in place, each
\* court keeps the rows it had, and the query of the new courts that follows
\* returns no court that has a row, deleted or not.
MarkersFollowCourts ==
    [][\A p \in Tasks :
        /\ (run[p].pc = "sync" /\ obs'.kind = "sync_begin" /\ obs'.proc = p) =>
            LET db == run[p].db
                before == court_coordinates[db]
                after == court_coordinates'[db]
            IN  /\ \A j \in Idx(after) :
                      /\ HasCourt(db, after[j].court_id)
                      /\ after[j].deleted = CourtOf(db, after[j].court_id).deleted
                      /\ (after[j].deleted_at = NoneNum)
                            <=> (CourtOf(db, after[j].court_id).deleted_at = NoneNum)
                /\ \A i \in Idx(data_courts[db]) :
                      LET id == data_courts[db][i].id
                          had == {j \in Idx(before) : before[j].court_id = id}
                          has == {j \in Idx(after) : after[j].court_id = id}
                      IN  /\ Cardinality(has) = Cardinality(had)
                          /\ (\E j \in had : ~before[j].deleted) /\ data_courts[db][i].deleted
                                => \E j \in has :
                                      after[j].deleted_at = data_courts[db][i].deleted_at
                          /\ ~data_courts[db][i].deleted
                                => \A j \in has : after[j].deleted_at = NoneNum
        /\ (obs'.kind = "sync_names" /\ obs'.proc = p) =>
            \A k \in Idx(run'[p].queue) :
                \A j \in Idx(court_coordinates[run[p].db]) :
                    court_coordinates[run[p].db][j].court_id # run'[p].queue[k].id
    ]_vars

\* Step 1 has run on the second database, whose court had been restored, after
\* it marked the coordinate of a court of the first database with the time at
\* which that court was soft-deleted.
MarkersFollowCourtsWitness ==
    /\ obs.kind = "sync_begin"
    /\ obs.db = 2
    /\ ~data_courts[2][1].deleted
    /\ ~court_coordinates[2][1].deleted
    /\ court_coordinates[2][1].deleted_at = NoneNum
    /\ data_courts[1][1].deleted
    /\ court_coordinates[1][1].deleted
    /\ court_coordinates[1][1].deleted_at = data_courts[1][1].deleted_at

-----------------------------------------------------------------------------
(* Properties of step 3, the courts whose address changed *)

\* The coordinate rows of a database whose stored hash is not the hash of the
\* address and city they were geocoded from.
StaleHashes(db) ==
    {j \in Idx(court_coordinates[db]) :
        court_coordinates[db][j].data_hash #
            calculate_court_hash(court_coordinates[db][j].court_id,
                                 court_coordinates[db][j].geocoded_address[1],
                                 court_coordinates[db][j].geocoded_address[2])}

\* C29: when the geocoding of a court whose hash changed fails, the
\* coordinates of the database are left as they were, the court is not in what
\* remains of the run's work on the database, and its stored hash still
\* differs from the hash of its address, so that the query of the next run
\* returns it again; when it succeeds, latitude, longitude, geocoded address and
\* hash of the court's row are written together from the answer and from the
\* court's current address and city.  The query of step 3 returns every court
\* whose stored hash differs, and the query of step 4 no court that has a
\* row.
RegeocodeAllOrNothing ==
    [][\A p \in Tasks :
        /\ (obs'.kind = "regeocode" /\ obs'.proc = p) =>
            LET db == run[p].db
                court == Head(run[p].queue)
                dc == CourtOf(db, court.id)
                rows == {j \in Idx(court_coordinates'[db]) :
                            court_coordinates'[db][j].court_id = court.id}
            IN  /\ obs'.outcome \in {"error", "raised"} =>
                      /\ court_coordinates' = court_coordinates
                      /\ \A j \in rows :
                            court_coordinates'[db][j].data_hash
                                # calculate_court_hash(dc.id, dc.adress, dc.city)
                /\ obs'.outcome = "error" =>
                      /\ run'[p].db = db
                      /\ \A k \in Idx(run'[p].queue) : run'[p].queue[k].id # court.id
                /\ obs'.outcome = "geocoded" =>
                      /\ rows # {}
                      /\ \A j \in rows :
                            /\ court_coordinates'[db][j].latitude = obs'.geo.lat
                            /\ court_coordinates'[db][j].longitude = obs'.geo.lng
                            /\ court_coordinates'[db][j].geocoded_address
                                   = <<dc.adress, dc.city>>
                            /\ court_coordinates'[db][j].data_hash
                                   = calculate_court_hash(dc.id, dc.adress, dc.city)
                      /\ \A j \in Idx(court_coordinates'[db]) \ rows :
                            court_coordinates'[db][j] = court_coordinates[db][j]
                /\ StaleHashes(db)' = {}
        /\ (obs'.kind = "sync_begin" /\ obs'.proc = p) =>
            \A i \in Idx(data_courts[run[p].db]) :
                LET dc == data_courts[run[p].db][i]
                IN  (/\ dc.status = "Activo"
                     /\ ~dc.deleted
                     /\ \E j \in Idx(court_coordinates'[run[p].db]) :
                           /\ court_coordinates'[run[p].db][j].court_id = dc.id
                           /\ ~court_coordinates'[run[p].db][j].deleted
                           /\ court_coordinates'[run[p].db][j].data_hash
                                  # calculate_court_hash(dc.id, dc.adress, dc.city))
                    => \E k \in Idx(run'[p].queue) : run'[p].queue[k].id = dc.id
        /\ (obs'.kind = "sync_names" /\ obs'.proc = p) =>
            \A k \in Idx(run'[p].queue) :
                ~\E j \in Idx(court_coordinates'[run[p].db]) :
                    court_coordinates'[run[p].db][j].court_id = run'[p].queue[k].id
    ]_vars

\* The court of the first database that moved before the history began: the
\* first run's attempt failed and left its row as it was, and the second
\* run's query returns the court again.
RegeocodeAllOrNothingWitness ==
    /\ hist.runs = 2
    /\ hist.changes = 0
    /\ obs.kind = "sync_begin"
    /\ obs.db = 1
    /\ run["scheduled"].queue # <<>>
    /\ Head(run["scheduled"].queue).id = 1
    /\ court_coordinates[1][1].latitude = 3
    /\ court_coordinates[1][1].data_hash = calculate_court_hash(1, "k0", BA)

-----------------------------------------------------------------------------
(* The synchronizer on databases that hold assignments of earlier runs,    *)
(* under a daily limit that the run reaches while it geocodes courts       *)

NamesDaily == 2

\* The claims are no longer pending: the engine finds nothing to do.
Decided(l) == [l EXCEPT !.lawsuit_status = "Asignado"]
NamesLawsuits == << <<Decided(Lawsuit(11, 1, "Minima"))>>, <<Decided(Lawsuit(21, 1, "Minima"))>> >>

\* The row an earlier run wrote for the claim joined as l, assigning it the court.
EarlierRow(l, court, km) ==
    AssignmentRow(l, AddressText("full", l, NoCity), l.city, court.id, court.name, km,
                  l.type_quantity, StoredHash(ClaimHash(l), court.name))
NamesAssignments ==
    << <<EarlierRow([lawsuit_id |-> 11, client_id |-> 1, type_quantity |-> "Minima",
                     identification |-> 1001, adress |-> "a1", neighborhood |-> NULL,
                     city |-> <<"b", "a">>, department |-> "dep"], TwoCourts[1][1], 2)>>,
       <<EarlierRow([lawsuit_id |-> 21, client_id |-> 1, type_quantity |-> "Minima",
                     identification |-> 1001, adress |-> "a2", neighborhood |-> NULL,
                     city |-> CA, department |-> "dep"], TwoCourts[2][1], 3)>> >>

InitNames ==
    /\ now_month = 1
    /\ state = InitialState(1)
    /\ api_limits = [daily |-> NamesDaily, monthly |-> MonthlyLimit]
    /\ city_variants = VariantGroups
    /\ collation = "accent_insensitive"
    /\ data_courts = TwoCourts
    /\ court_coordinates = SyncCoordinates
    /\ lawsuits = NamesLawsuits
    /\ clients = TwoClients
    /\ adresses = << <<Adress(1, 1, "a1", <<"b", "a">>)>>, <<Adress(1, 1, "a2", CA)>> >>
    /\ assignments = NamesAssignments
    /\ run = [p \in Procs |-> IdleRun]
    /\ oracle = NoRow
    /\ obs = NoObs
    /\ hist = [dispatched_today |-> 0, dispatched_month |-> 0, runs |-> 0, env |-> 0,
               changes |-> 0, stopped |-> FALSE,
               event |-> NULL, before |-> [db \in DBs |-> <<>>],
               evaluated |-> [db \in DBs |-> <<>>]]

NextNames ==
    \/ Start("scheduled")
    \/ SyncBegin("scheduled")
    \/ Regeocode("scheduled", GeoFew)
    \/ SyncNamesStep("scheduled")
    \/ GeocodeNew("scheduled", GeoFew)
    \/ SyncEnd("scheduled")
    \/ AssignBegin("scheduled")
    \/ Finish("scheduled")
    \/ CourtChange
    \/ ResetDaily
    \/ ManualStart

SpecNames == InitNames /\ [][NextNames]_vars

-----------------------------------------------------------------------------
(* Properties of the propagation of court names *)

\* The assignments of the database that name a court which exists all carry
\* the court's current name.
NamesCurrent(db) ==
    \A i \in Idx(assignments[db]) :
        (assignments[db][i].court_id # NoneNum /\ HasCourt(db, assignments[db][i].court_id))
            => assignments[db][i].court_name = CourtOf(db, assignments[db][i].court_id).name

\* The step ends the synchronizer's work on the database it was on: the
\* summary is reached, or a refusal by the governor leaves the function.
SyncLeaves(p) ==
    /\ obs'.proc = p
    /\ \/ obs'.kind = "sync_end"
       \/ obs'.kind \in {"regeocode", "geocode_new"} /\ obs'.outcome = "raised"

\* C30: whenever the synchronizer has run on a database, whether its
\* geocoding succeeded, failed or was refused by the governor, every
\* assignment that names an existing court carries the court's current name;
\* the propagation changes the name and the time of the row and nothing else.
NamesPropagatedAnyway ==
    [][\A p \in Tasks :
        /\ SyncLeaves(p) => \A db \in {run[p].db} : NamesCurrent(db)'
        /\ (obs'.kind = "sync_names" /\ obs'.proc = p) =>
            /\ Len(assignments'[run[p].db]) = Len(assignments[run[p].db])
            /\ \A i \in Idx(assignments[run[p].db]) :
                  assignments'[run[p].db][i]
                      = [assignments[run[p].db][i] EXCEPT
                            !.court_name = assignments'[run[p].db][i].court_name,
                            !.updated_at = assignments'[run[p].db][i].updated_at]
    ]_vars

-----------------------------------------------------------------------------
\* The order of the work within one run (tasks.py: sync_court_coordinates()
\* over every database, then process_pending_lawsuits() over every database).

\* The phase a position of a run belongs to: 1 the synchronizer, 2 the
\* assignment engine, 3 the end of the task.
PhaseOf(pc) ==
    IF pc \in {"sync", "regeocode", "new_courts"} THEN 1
    ELSE IF pc \in {"assign", "claims", "found"} THEN 2
    ELSE 3

\* C31 as stated: within a run the databases are taken one after another,
\* each through its synchronization and then its assignment, so a run that
\* is working on a database never goes back to an earlier one.
DatabaseByDatabase ==
    [][\A p \in Tasks :
        (PhaseOf(run[p].pc) < 3 /\ PhaseOf(run'[p].pc) < 3)
            => run'[p].db >= run[p].db
    ]_vars

\* C31, amended: a run goes through the phases in order, the synchronizer
\* over every database and then the assignment engine over every database;
\* within a phase the databases are taken in the configured order, one at a
\* time, and the engine starts on the first database only when the
\* synchronizer has left the last one.
PhasesInOrder ==
    [][\A p \in Tasks :
        (run[p].pc # "idle" /\ run'[p].pc # "idle") =>
            /\ PhaseOf(run'[p].pc) >= PhaseOf(run[p].pc)
            /\ (PhaseOf(run'[p].pc) = PhaseOf(run[p].pc) /\ PhaseOf(run[p].pc) < 3)
                  => run'[p].db \in {run[p].db, run[p].db + 1}
            /\ (PhaseOf(run[p].pc) = 1 /\ PhaseOf(run'[p].pc) > 1)
                  => /\ run[p].db = Len(DB_NAMES)
                     /\ run'[p].pc = "assign"
                     /\ run'[p].db = 1
            /\ (PhaseOf(run[p].pc) = 2 /\ PhaseOf(run'[p].pc) > 2)
                  => run[p].db = Len(DB_NAMES)
    ]_vars

\* The synchronizer has just left the last database and the run stands at the
\* assignment of the first one.
PhasesInOrderWitness ==
    \E p \in Tasks :
        /\ run[p].pc = "assign"
        /\ run[p].db = 1
        /\ obs.proc = p
        /\ obs.kind = "sync_end"
        /\ obs.db = Len(DB_NAMES)
        /\ Len(DB_NAMES) > 1

-----------------------------------------------------------------------------
(* The engine run as a script over a city of six courts in the first       *)
(* database and a city of one eligible court in the second                 *)

CallsDaily == 2

InitCalls ==
    InitWith({[daily |-> CallsDaily, monthly |-> EngineMonthly],
              [daily |-> EngineDaily, monthly |-> EngineMonthly]},
             {"accent_insensitive"}, {NoRow},
             <<SixCourts[1], TwoCourts[1]>>, <<SixCoordinates[1], TwoCoordinates[1]>>,
             <<OneLawsuit[1], TwoLawsuits[1]>>, <<OneClient[1], TwoClients[1]>>,
             <<OneAdress[1], TwoAdresses[1]>>)

SpecCalls == InitCalls /\ [][NextSel]_vars

\* d holds the min(5, number of candidates) candidates of claim l nearest in a
\* straight line to the place geo, nearest first.
NearestOf(db, l, geo, d) ==
    \A el \in {EligibleCoordinates(db, l)} :
    \A km \in {[j \in el |->
                  Abs(geo.lat - court_coordinates[db][j].latitude)
                  + Abs(geo.lng - court_coordinates[db][j].longitude)]} :
        /\ Len(d) = Min(TopCourts, Cardinality(el))
        /\ \A i \in Idx(d) : \E j \in el :
               /\ court_coordinates[db][j].court_id = d[i].court_id
               /\ km[j] = d[i].straight_distance
        /\ \A i \in Idx(d) : \A k \in Idx(d) :
               i < k => /\ d[i].straight_distance <= d[k].straight_distance
                        /\ d[i].court_id # d[k].court_id
        /\ \A j \in el :
               \/ \E i \in Idx(d) : d[i].court_id = court_coordinates[db][j].court_id
               \/ \A i \in Idx(d) : d[i].straight_distance <= km[j]

\* C32: the evaluation of one claim makes at most two calls, the geocoding
\* call first and at most one routing call after it, whatever the services
\* answer (a failure or a timeout is not retried); each call is preceded by
\* one increment of the governor's counters, so the counters advance by the
\* number of calls; and the destinations of the routing call are the
\* min(5, number of candidates) candidates nearest in a straight line.
CallsOfClaim ==
    [][obs'.kind = "claim" =>
        /\ Len(obs'.calls) <= 2
        /\ \A i \in Idx(obs'.calls) :
               /\ obs'.calls[i].api = (IF i = 1 THEN "geocode" ELSE "route")
               /\ obs'.calls[i].after_today = state.api_calls_today + i
               /\ obs'.calls[i].after_month =
                      (IF state.current_month # now_month THEN 0
                       ELSE state.api_calls_month) + i
               /\ i < Len(obs'.calls) => obs'.calls[i].dispatched
        /\ state'.api_calls_today = state.api_calls_today + Len(obs'.calls)
        /\ hist'.dispatched_today <= hist.dispatched_today + Len(obs'.calls)
        /\ Len(obs'.calls) = 2 =>
               NearestOf(obs'.db, obs'.claim, obs'.geo, obs'.destinations)
        /\ Len(obs'.calls) < 2 => obs'.destinations = <<>>
    ]_vars

\* The geocoding and the routing request of a claim were both dispatched, the
\* routing request for the five nearest of six candidates, and it timed out:
\* the step ends with these two calls.
CallsOfClaimWitness ==
    /\ obs.kind = "claim"
    /\ Len(obs.calls) = 2
    /\ obs.calls[1].dispatched
    /\ obs.calls[2].dispatched
    /\ obs.route.status = "TIMEOUT"
    /\ Cardinality(EligibleCoordinates(obs.db, obs.claim)) = 6
    /\ Len(obs.destinations) = 5
    /\ obs.outcome = "success"

-----------------------------------------------------------------------------
(* Properties of the operator's start and of the daily reset *)

\* C33: manual_start() clears the manual stop and the exceeded flag and sets
\* the status to STOPPED; the two counters, the month marker and the last
\* error stay as they were; after it can_run() allows a run, also when a run
\* is in progress and when the monthly counter has reached its limit.
ManualStartFrame ==
    [][obs'.kind = "manual_start" =>
        /\ state'.is_manual_stopped = FALSE
        /\ state'.api_quota_exceeded = FALSE
        /\ state'.status = "stopped"
        /\ state'.api_calls_today = state.api_calls_today
        /\ state'.api_calls_month = state.api_calls_month
        /\ state'.current_month = state.current_month
        /\ state'.last_error = state.last_error
        /\ can_run(state') = <<TRUE, "OK">>
    ]_vars

\* The operator started the bot while a run was in progress and the monthly
\* counter had reached its limit: the status reads STOPPED and a run may
\* start.
ManualStartFrameWitness ==
    /\ obs.kind = "manual_start"
    /\ \E p \in Tasks : run[p].pc \notin {"idle", "finish"}
    /\ state.api_calls_month >= MAX_API_CALLS_PER_MONTH
    /\ state.api_calls_today > 0
    /\ state.current_month = now_month
    /\ state.status = "stopped"
    /\ can_run(state)[1]

\* C34: reset_daily_counter() sets the daily counter to 0 and clears the
\* exceeded flag, and the task reports the daily count it found; the monthly
\* counter, the month marker, the status, the last error and the manual stop
\* stay as they were.
ResetDailyFrame ==
    [][obs'.kind = "reset_daily" =>
        /\ state'.api_calls_today = 0
        /\ state'.api_quota_exceeded = FALSE
        /\ obs'.row.old_count = state.api_calls_today
        /\ obs'.row.new_count = 0
        /\ state'.api_calls_month = state.api_calls_month
        /\ state'.current_month = state.current_month
        /\ state'.status = state.status
        /\ state'.last_error = state.last_error
        /\ state'.is_manual_stopped = state.is_manual_stopped
    ]_vars

\* The counter was reset from a count above zero while the bot was stopped by
\* the operator and a run was in progress: the monthly count and the stop
\* are still there.
ResetDailyFrameWitness ==
    /\ obs.kind = "reset_daily"
    /\ obs.row.old_count > 0
    /\ state.api_calls_today = 0
    /\ state.api_calls_month > 0
    /\ state.is_manual_stopped
    /\ \E p \in Tasks : run[p].pc \notin {"idle", "finish"}

-----------------------------------------------------------------------------
(* The city of a geocoding response, over every response of up to three    *)
(* address components in every order                                       *)

Country(name) == [types |-> {"country", "political"}, long_name |-> name]

\* The components a response may list.
CityComponents == {Locality(BA), Locality(CA), Admin2(BA), Admin2(CA), Country(<<"C", "O">>)}
MaxComponents == 3
CityResponses ==
    UNION {[1..n -> CityComponents] : n \in 0..MaxComponents}

InitCity ==
    /\ now_month = 1
    /\ state = InitialState(1)
    /\ api_limits = [daily |-> DailyLimit, monthly |-> MonthlyLimit]
    /\ city_variants = VariantGroups
    /\ collation = "accent_insensitive"
    /\ data_courts = [db \in DBs |-> <<>>]
    /\ court_coordinates = [db \in DBs |-> <<>>]
    /\ lawsuits = [db \in DBs |-> <<>>]
    /\ clients = [db \in DBs |-> <<>>]
    /\ adresses = [db \in DBs |-> <<>>]
    /\ assignments = [db \in DBs |-> <<>>]
    /\ run = [p \in Procs |-> IdleRun]
    /\ oracle \in {GeoOk(1, 1, comps) : comps \in CityResponses}
    /\ obs = NoObs
    /\ hist = [dispatched_today |-> 0, dispatched_month |-> 0, runs |-> 0, env |-> 0,
               changes |-> 0, stopped |-> FALSE,
               event |-> NULL, before |-> [db \in DBs |-> <<>>],
               evaluated |-> [db \in DBs |-> <<>>]]

\* geocode_address_with_logging is called and the service answers with the
\* response.
CityApply ==
    /\ obs.kind = "none"
    /\ \E g \in {geocode_address_with_logging(state, now_month, oracle)} :
         /\ state' = g.call.st
         /\ obs' = [NoObs EXCEPT !.kind = "geocode",
                                 !.calls = <<CallObs("geocode", g.call)>>,
                                 !.geo = [lat |-> g.lat, lng |-> g.lng,
                                          found_city |-> g.found_city]]
    /\ UNCHANGED <<api_limits, now_month, city_variants, data_courts,
                   court_coordinates, lawsuits, clients, adresses, assignments, run,
                   collation, oracle, hist>>

NextCity == CityApply

SpecCity == InitCity /\ [][NextCity]_vars

\* The names of the response's components of a type.
NamesOfType(components, type) ==
    {components[i].long_name : i \in {j \in Idx(components) : type \in components[j].types}}

\* C35: the city of a successful geocode is the name of the response's
\* locality component when there is one, else the name of its second-level
\* administrative area component, else none, in whatever order the response
\* lists its components.
LocalityPreferred ==
    (obs.kind = "geocode" /\ obs.calls[1].dispatched) =>
        LET localities == NamesOfType(oracle.components, "locality")
            areas == NamesOfType(oracle.components, "administrative_area_level_2")
        IN  IF localities # {} THEN obs.geo.found_city \in localities
            ELSE IF areas # {} THEN obs.geo.found_city \in areas
            ELSE obs.geo.found_city = NoCity

-----------------------------------------------------------------------------
(* Two tasks on one state file, every operation on it a read of the whole  *)
(* state followed, later, by a write of the whole state                    *)

NextStale ==
    \/ \E p \in Tasks : RaceStart(p)
    \/ \E p \in Tasks : GovernorRead(p)
    \/ \E p \in Tasks : GovernorWrite(p)
    \/ \E p \in Tasks : RaceEnd(p)
    \/ \E p \in Tasks : FinishRead(p)
    \/ \E p \in Tasks : FinishWrite(p)
    \/ ResetDaily
    \/ Tick

SpecStale == InitRace /\ [][NextStale]_vars

\* C36: whatever the interleaving of the governor's increments with the
\* status updates of another task, the daily counter in the state file goes
\* down only by the daily reset and the monthly counter only by the rollover
\* of the month in an increment.
CountersNeverLost ==
    [][/\ state'.api_calls_today < state.api_calls_today => obs'.kind = "reset_daily"
       /\ state'.api_calls_month < state.api_calls_month =>
              /\ obs'.kind = "governor_write"
              /\ state'.current_month # state.current_month
    ]_vars

-----------------------------------------------------------------------------
(* The entry check of the two tasks, each taken by the worker as it comes, *)
(* with runs that end well or fail, the daily reset and the operator       *)

NextGate ==
    \/ \E p \in Tasks : RaceStart(p)
    \/ \E p \in Tasks : RaceEnd(p)
    \/ \E p \in Tasks : Finish(p)
    \/ \E p \in Tasks : FinishFailed(p)
    \/ ResetDaily
    \/ ManualStop
    \/ ManualStart

SpecGate == InitRace /\ [][NextGate]_vars

\* C37: a task that enters starts its run exactly when the manual stop and the
\* exceeded flag are both clear, whatever the status says and whatever else
\* is running: can_run() reads these two flags and nothing else.
GateOnFlagsOnly ==
    [][\A p \in Tasks :
          (obs'.kind = "start" /\ obs'.proc = p) =>
              /\ (run'[p].pc # "idle")
                    <=> (~state.is_manual_stopped /\ ~state.api_quota_exceeded)
              /\ can_run(state)[1]
                    <=> (~state.is_manual_stopped /\ ~state.api_quota_exceeded)
    ]_vars

\* A run ended with the status NO_API_CREDITS, the daily counter was reset,
\* and the other task entered and started its run.
GateOnFlagsOnlyWitness ==
    \E p \in Tasks : \E q \in Tasks \ {p} :
        /\ obs.kind = "start"
        /\ obs.proc = p
        /\ run[p].pc = "calls"
        /\ run[q].pc = "idle"
        /\ run[q].end_status = "no_api_credits"
        /\ hist.event = "reset_daily"
        /\ hist.env = 1
        /\ state.status = "running"

-----------------------------------------------------------------------------
(* The two uses of the variant groups on one pair of names: the comparison *)
(* of the wrong-city guard and the list of the candidate filter            *)

\* cities_match(city1, city2) and get_city_search_variants(city1) are called.
VariantsApply ==
    /\ obs.kind = "none"
    /\ obs' = [NoObs EXCEPT !.kind = "search_variants",
                            !.outcome = PyBool(cities_match(oracle.city1, oracle.city2,
                                                            city_variants)),
                            !.row = [search_cities |->
                                         get_city_search_variants(oracle.city1,
                                                                  city_variants),
                                     normalized |-> normalize_city(oracle.city2)]]
    /\ UNCHANGED <<state, api_limits, now_month, city_variants, data_courts,
                   court_coordinates, lawsuits, clients, adresses, assignments, run,
                   collation, oracle, hist>>

NextVariants == VariantsApply

SpecVariants == InitMatch /\ [][NextVariants]_vars

\* C38: for all names a and b and every configuration of the variant groups,
\* cities_match(a, b) holds exactly when the normalized b is one of the search
\* variants of a.
MatchIsSearchVariant ==
    obs.kind = "search_variants" =>
        (obs.outcome = "True" <=> obs.row.normalized \in obs.row.search_cities)

-----------------------------------------------------------------------------
(* Runs over a database in which one client owns two pending claims        *)

PairLawsuits ==
    << <<Lawsuit(11, 1, "Minima"), Lawsuit(13, 1, "Menor")>>, <<Lawsuit(21, 1, "Minima")>> >>

InitPair ==
    InitWith({[daily |-> EngineDaily, monthly |-> EngineMonthly]},
             {"accent_insensitive"}, {NoRow},
             TwoCourts, TwoCoordinates, PairLawsuits, TwoClients, TwoAdresses)

NextPair ==
    \/ \E p \in Tasks : Start(p)
    \/ \E p \in Tasks : SyncBegin(p)
    \/ \E p \in Tasks : Regeocode(p, GeoFew)
    \/ \E p \in Tasks : SyncNamesStep(p)
    \/ \E p \in Tasks : GeocodeNew(p, GeoFew)
    \/ \E p \in Tasks : SyncEnd(p)
    \/ \E p \in Tasks : AssignBegin(p)
    \/ \E p \in Tasks : AssignClaim(p, GeoFew, RouteFew)
    \/ \E p \in Tasks : AssignEnd(p)
    \/ \E p \in Tasks : Finish(p)

SpecPair == InitPair /\ [][NextPair]_vars

\* The pending claims of a client in a database, in the order of the query.
ClaimsOf(db, client_id) ==
    SelectSeq(PendingLawsuits(db, NoneNum), LAMBDA l : l.client_id = client_id)

\* The rows of a client in a table of assignments.
RowsOf(rows, client_id) == SelectSeq(rows, LAMBDA r : r.client_id = client_id)

\* The step evaluated, without an exception, a claim of a client who owns two
\* pending claims.
PairEvaluated(p) ==
    /\ obs'.kind = "claim"
    /\ obs'.proc = p
    /\ obs'.raised = NULL
    /\ Len(ClaimsOf(obs'.db, obs'.claim.client_id)) = 2

\* The step wrote the client's row for the claim: by INSERT when the client had
\* no row, which is the first evaluation of the client in the database, and
\* by UPDATE otherwise; the client has one row, with the id and the hash of
\* the claim.
PairWritten(db, l) ==
    /\ IsRow(obs'.row)
    /\ obs'.existed <=> RowsOf(assignments[db], l.client_id) # <<>>
    /\ ~obs'.existed <=>
           \A k \in Idx(hist.evaluated[db]) : hist.evaluated[db][k].client_id # l.client_id
    /\ Len(assignments'[db]) = Len(assignments[db]) + (IF obs'.existed THEN 0 ELSE 1)
    /\ Len(RowsOf(assignments'[db], l.client_id)) = 1
    /\ RowsOf(assignments'[db], l.client_id)[1].lawsuit_id = l.lawsuit_id
    /\ RowsOf(assignments'[db], l.client_id)[1].data_hash = ClaimHash(l)

SkipOutcomes == {"skipped", "skipped_no_address", "skipped_no_court"}

-----------------------------------------------------------------------------
(* The shape of the rows of lawsuit_court_assignments *)

\* C40: whatever the runs so far, a row of assignments has no court id and
\* no distance exactly when its court_name is one of the four sentinel
\* messages, and a court id and a distance exactly when its court_name is the
\* name of a court.
SentinelIffNoCourt ==
    \A db \in DBs : \A i \in Idx(assignments[db]) :
        LET row == assignments[db][i]
        IN  /\ row.court_name # NULL
            /\ row.court_name \in Sentinels
                  <=> (row.court_id = NoneNum /\ row.distance_km = NoneNum)
            /\ row.court_name \notin Sentinels
                  <=> (row.court_id # NoneNum /\ row.distance_km # NoneNum)
            /\ row.court_name \notin Sentinels =>
                  /\ row.court_id > 0
                  /\ row.distance_km >= 0

\* A claim whose row named a court with a distance was evaluated again and
\* got a sentinel message: the row has lost its court and its distance.
SentinelIffNoCourtWitness ==
    /\ obs.kind = "claim"
    /\ IsRow(obs.existing)
    /\ obs.existing.court_id # NoneNum
    /\ obs.existing.distance_km # NoneNum
    /\ obs.existing.court_name \notin Sentinels
    /\ IsRow(obs.row)
    /\ obs.row.court_name \in Sentinels
    /\ RowOf(obs.db, obs.claim.client_id).court_name = obs.row.court_name
    /\ RowOf(obs.db, obs.claim.client_id).court_id = NoneNum
    /\ RowOf(obs.db, obs.claim.client_id).distance_km = NoneNum

=============================================================================
